---- MODULE Spec2Model ----
(***************************************************************************)
(* Review orchestration of gh-review (src/index.js): processReviewCommand, *)
(* the per-file review tasks run under the p-limit limiter, the inline     *)
(* comment dedup set, and the timeout wrapper analyzeWithAI.               *)
(*                                                                         *)
(* One step of the model is one continuation of the JavaScript event loop: *)
(* the settlement of the external call a coroutine awaits, followed by the *)
(* synchronous code that runs up to the next await.                        *)
(***************************************************************************)
EXTENDS Integers, Sequences, FiniteSets, TLC

\* ---------------------------------------------------------------- bounds
MaxFiles == 3            \* reviewable files of the pull request
MaxListed == 4           \* length of the file list in the assembly specification
MaxChanged == 2          \* changed lines of the pull request, all files
MaxFaults == 1           \* fetch, LLM and inline-comment calls of one run that
                         \* fail or come back empty, and unreadable prompts
MaxCalls == 3            \* analyzeWithAI calls in the timeout specification

\* ------------------------------------------------------ program constants
CONCURRENCY_LIMIT == 2
MAX_FILES_TO_PROCESS == 3
REQUEST_TIMEOUT == 2
LINE_SAMPLE == 3

\* ------------------------------------------------------------------ text
\* A string is modelled by what trim() and toLowerCase() can change of it:
\* its core (the lower-case, trimmed text), whether it has upper-case
\* letters, and whether it has surrounding white space.
Text(core, caps, pad) == [core |-> core, caps |-> caps, pad |-> pad]
NoText == Text("", FALSE, FALSE)

Trim(t) == [t EXCEPT !.pad = FALSE]
ToLowerCase(t) == [t EXCEPT !.caps = FALSE]
IsTruthy(t) == t.core # "" \/ t.pad

skipPhrases == {"lgtm", "no issues"}

\* c.includes(p) is case sensitive: a phrase is found only in lower-case text
Includes(c, p) == c.core = p /\ ~c.caps

shouldPostInlineCommentNoLower(comment) ==
  IF ~IsTruthy(comment) THEN FALSE
  ELSE ~(\E p \in skipPhrases : Includes(comment, p))

shouldPostInlineComment(comment) ==
  IF ~IsTruthy(comment) THEN FALSE
  ELSE LET c == ToLowerCase(comment)
       IN ~(\E p \in skipPhrases : Includes(c, p))

\* ----------------------------------------------------------------- input
FileKinds == { [status |-> "modified", ext |-> "js"],
               [status |-> "removed",  ext |-> "js"],
               [status |-> "modified", ext |-> "png"] }

BinaryExtensions == {"png", "jpg", "gz", "exe", "bin", "sqlite"}

SeqsUpTo(S, n) == UNION { [1..k -> S] : k \in 0..n }

PromptNames == {"manager", "reviewer", "line", "merge", "final"}

AllChangedLines == <<3, 4, 7, 9, 12>>
ChangedLineLists == { SubSeq(AllChangedLines, 1, n) : n \in 0..MaxChanged }

Messages == {"boom"}

\* the normalized texts of the comments the model's LLM can produce
CommentCores == {"", "fix", "lgtm", "rename"}

VARIABLES
  files,              \* the file list of the pull request
  initialComment,     \* how the caller supplied the initial comment
  missingPrompts,     \* prompt templates loadPrompt cannot read
  pc,                 \* the await processReviewCommand is suspended at
  reviewComment,      \* id of the initial review comment, 0 = undefined
  prComments,         \* the comments on the pull request: id -> body
  createCalls,        \* issues.createComment calls, in call order
  updateCalls,        \* issues.updateComment calls, in call order
  commentFailed,      \* some createComment/updateComment call failed
  transitions,        \* times a comment was given a review or an error body
  filesToProcess,     \* indices of the files kept by the filter
  asmCalls,           \* processFileDiff calls, in call order
  asmInFlight,        \* processFileDiff calls not yet completed
  fileInfos,          \* the per-file entries built by the assembly loop
  managerPlan, managerFailed,
  task,               \* the file-review tasks handed to the limiter
  queue, activeCount, \* the limiter's queue and active count
  postedLineAnalyses, \* dedup set of normalized comments
  referencedLines,    \* records of the posted inline comments
  reviewCommentCalls, \* pulls.createReviewComment calls per normalized text
  suppressed,         \* normalized texts skipped as already posted
  results,            \* the results of Promise.all
  finalSummary, finalFailed,
  escaped,            \* the stage whose exception reached the outer catch
  llmCalls,           \* number of analyzeWithAI calls issued
  faults,             \* failed or empty external calls so far
  failedPosts,        \* createReviewComment calls that were rejected
  lineCalls,          \* per file, the line-level LLM calls in call order
  postCalls,          \* the createReviewComment calls, in call order
  call,               \* analyzeWithAI calls of the timeout specification
  calc,               \* the helper function being computed and its locals
  limit,              \* the module-level limiter shared by concurrent runs
  runs                \* the fan-outs of concurrently running invocations

reviewVars == << files, initialComment, missingPrompts, pc, reviewComment,
                 prComments, createCalls, updateCalls, commentFailed,
                 transitions, filesToProcess, asmCalls, asmInFlight,
                 fileInfos, managerPlan, managerFailed, task, queue,
                 activeCount, postedLineAnalyses, referencedLines,
                 reviewCommentCalls, suppressed, failedPosts, lineCalls,
                 postCalls, results,
                 finalSummary, finalFailed, escaped, llmCalls, faults >>

vars == << reviewVars, call, calc, limit, runs >>

runVars == << reviewVars, calc, limit, runs >>

inputVars == << files, initialComment, missingPrompts >>
asmVars == << filesToProcess, asmCalls, asmInFlight, fileInfos >>
fanVars == << task, queue, activeCount, postedLineAnalyses, referencedLines,
              reviewCommentCalls, suppressed, failedPosts, lineCalls,
              postCalls >>

CallerCommentId == 1

NoSummary == [kind |-> "unset", text |-> NoText, msg |-> ""]
StartingBody == [kind |-> "starting", summary |-> NoSummary, refs |-> << >>,
                 errors |-> {}]
ErrorBody == [kind |-> "error", summary |-> NoSummary, refs |-> << >>,
              errors |-> {}]

IdleCall == [state |-> "idle", timer |-> "unset", elapsed |-> 0]

\* no helper is being computed, no concurrent invocation is running
NoCalc == [fn |-> "none"]
IdleLimit == [activeCount |-> 0, queue |-> << >>]

InitLib ==
  /\ calc = NoCalc
  /\ limit = IdleLimit
  /\ runs = << >>

\* the state of a run before its first step
InitRun ==
  /\ pc = "start"
  /\ reviewComment = 0
  /\ prComments = IF initialComment = "none" THEN << >>
                  ELSE << StartingBody >>
  /\ createCalls = << >>
  /\ updateCalls = << >>
  /\ commentFailed = FALSE
  /\ transitions = 0
  /\ filesToProcess = << >>
  /\ asmCalls = << >>
  /\ asmInFlight = {}
  /\ fileInfos = << >>
  /\ managerPlan = NoText
  /\ managerFailed = FALSE
  /\ task = << >>
  /\ queue = << >>
  /\ activeCount = 0
  /\ postedLineAnalyses = {}
  /\ referencedLines = << >>
  /\ reviewCommentCalls = [c \in CommentCores |-> 0]
  /\ suppressed = {}
  /\ failedPosts = {}
  /\ lineCalls = << >>
  /\ postCalls = << >>
  /\ results = << >>
  /\ finalSummary = NoSummary
  /\ finalFailed = FALSE
  /\ escaped = "none"
  /\ llmCalls = 0

ReviewableFile == [status |-> "modified", ext |-> "js"]

\* at most one prompt template is unreadable: the run stops at the first
\* stage that loads it
PromptFailures == { {} } \cup { {p} : p \in PromptNames }

Init ==
  /\ files \in SeqsUpTo({ReviewableFile}, MaxFiles)
  /\ initialComment \in {"none", "supplied"}
  /\ missingPrompts \in { m \in PromptFailures : Cardinality(m) <= MaxFaults }
  /\ InitRun
  /\ faults = Cardinality(missingPrompts)
  /\ call = [c \in 1..MaxCalls |-> IdleCall]
  /\ InitLib

\* the runs of the filter and the assembly loop, over every kind of file
InitAssembly ==
  /\ files \in SeqsUpTo(FileKinds, MaxListed)
  /\ initialComment \in {"none", "supplied"}
  /\ missingPrompts = {}
  /\ InitRun
  /\ faults = 0
  /\ call = [c \in 1..MaxCalls |-> IdleCall]
  /\ InitLib

\* ------------------------------------------------------------ helpers
Min(a, b) == IF a < b THEN a ELSE b

RECURSIVE SortedSeq(_)
SortedSeq(S) ==
  IF S = {} THEN << >>
  ELSE LET m == CHOOSE x \in S : \A y \in S : x <= y
       IN << m >> \o SortedSeq(S \ {m})

\* the extension test of the file filter
IsBinary(file) == file.ext \in BinaryExtensions

\* files.filter(...).slice(0, MAX_FILES_TO_PROCESS), as indices into files
KeptByFilter(fs, i) == fs[i].status # "removed" /\ ~IsBinary(fs[i])

FilterFilesCapFirst(fs) ==
  LET first == SubSeq([i \in 1..Len(fs) |-> i], 1,
                      Min(Len(fs), MAX_FILES_TO_PROCESS))
  IN SelectSeq(first, LAMBDA i : KeptByFilter(fs, i))

FilterFiles(fs) ==
  LET kept == SelectSeq([i \in 1..Len(fs) |-> i],
                        LAMBDA i : KeptByFilter(fs, i))
  IN SubSeq(kept, 1, Min(Len(kept), MAX_FILES_TO_PROCESS))

\* the positions of filesToProcess whose assembly starts once `done`
\* assemblies have completed: the loop awaits each call before the next
NextAssembliesAllAtOnce(done, n) == IF done = 0 THEN 1..n ELSE {}

NextAssemblies(done, n) == IF done < n THEN {done + 1} ELSE {}

\* the environment of a run fails at most MaxFaults times
Budget(isFault) ==
  /\ isFault => faults < MaxFaults
  /\ faults' = IF isFault THEN faults + 1 ELSE faults

LlmFault(o) == ~o.ok \/ ~IsTruthy(o.text)

\* ------------------------------------------------- outer catch, line 760
\* The catch block issues the error body: an update of the review comment
\* when there is one, a new comment otherwise.
CatchAlwaysCreates(cause, rc, uc, cc) ==
  /\ pc' = "errposting"
  /\ escaped' = cause
  /\ updateCalls' = uc
  /\ createCalls' = Append(cc, ErrorBody)

Catch(cause, rc, uc, cc) ==
  /\ pc' = "errposting"
  /\ escaped' = cause
  /\ updateCalls' = IF rc # 0 THEN Append(uc, [id |-> rc, body |-> ErrorBody])
                    ELSE uc
  /\ createCalls' = IF rc = 0 THEN Append(cc, ErrorBody) ELSE cc

\* loadPrompt('manager_summary.md') and the manager call, lines 634-637
BeginManager(rc, uc, cc) ==
  IF "manager" \in missingPrompts
  THEN Catch("prompt", rc, uc, cc) /\ UNCHANGED llmCalls
  ELSE /\ pc' = "manager"
       /\ llmCalls' = llmCalls + 1
       /\ updateCalls' = uc
       /\ createCalls' = cc
       /\ UNCHANGED escaped

\* initialComment || octokit.__initialReviewComment, line 602
HasInitialCommentNever(ic) == FALSE

HasInitialComment(ic) == ic # "none"

\* ------------------------------------------------------ lines 601-615
Start ==
  /\ pc = "start"
  /\ IF HasInitialComment(initialComment)
     THEN /\ reviewComment' = CallerCommentId
          /\ filesToProcess' = FilterFiles(files)
          /\ pc' = "commits"
          /\ UNCHANGED createCalls
     ELSE /\ createCalls' = Append(createCalls, StartingBody)
          /\ pc' = "creating"
          /\ UNCHANGED << reviewComment, filesToProcess >>
  /\ UNCHANGED << inputVars, prComments, updateCalls, commentFailed,
                  transitions, asmCalls, asmInFlight, fileInfos, managerPlan,
                  managerFailed, fanVars, results, finalSummary,
                  finalFailed, escaped, llmCalls, faults, call, calc,
                  limit, runs >>

CreateDone ==
  /\ pc = "creating"
  /\ \E ok \in BOOLEAN :
       /\ UNCHANGED faults
       /\ IF ok
          THEN /\ prComments' = Append(prComments, StartingBody)
               /\ reviewComment' = Len(prComments) + 1
               /\ filesToProcess' = FilterFiles(files)
               /\ pc' = "commits"
               /\ UNCHANGED << createCalls, updateCalls, commentFailed,
                               escaped >>
          ELSE /\ commentFailed' = TRUE
               /\ Catch("create", 0, updateCalls, createCalls)
               /\ UNCHANGED << prComments, reviewComment, filesToProcess >>
  /\ UNCHANGED << inputVars, transitions, asmCalls, asmInFlight, fileInfos,
                  managerPlan, managerFailed, fanVars, results, finalSummary,
                  finalFailed, llmCalls, call, calc,
                  limit, runs >>

\* ------------------------------------------------------ lines 615-627
CommitsDone ==
  /\ pc = "commits"
  /\ LET n == Len(filesToProcess)
     IN IF n = 0
        THEN /\ BeginManager(reviewComment, updateCalls, createCalls)
             /\ UNCHANGED << asmCalls, asmInFlight >>
        ELSE /\ asmInFlight' = NextAssemblies(0, n)
             /\ asmCalls' = asmCalls \o SortedSeq(NextAssemblies(0, n))
             /\ pc' = "assembling"
             /\ UNCHANGED << updateCalls, createCalls, escaped, llmCalls >>
  /\ UNCHANGED << inputVars, reviewComment, prComments, commentFailed, transitions,
                  filesToProcess, fileInfos, managerPlan, managerFailed,
                  fanVars, results, finalSummary, finalFailed, faults, call, calc,
                  limit, runs >>

RECURSIVE ChangedSoFar(_)
ChangedSoFar(infos) ==
  IF infos = << >> THEN 0
  ELSE Len(Head(infos).changedLines) + ChangedSoFar(Tail(infos))

\* what processFileDiff can return: nothing, an info with an error, or an
\* info with the changed lines of the file's patch
AsmOutcomes(infos) ==
  { [kind |-> "nothing", changedLines |-> << >>],
    [kind |-> "error", changedLines |-> << >>] }
  \cup { [kind |-> "ok", changedLines |-> cl] :
            cl \in { l \in ChangedLineLists :
                       Len(l) + ChangedSoFar(infos) <= MaxChanged } }

\* the entry pushed to fileInfos for the value processFileDiff returned
FileInfoEntry(p, o) ==
  IF o.kind = "ok"
  THEN [pos |-> p, status |-> "ok", error |-> "",
        changedLines |-> o.changedLines]
  ELSE [pos |-> p, status |-> "error",
        error |-> IF o.kind = "error" THEN "assembly" ELSE "",
        changedLines |-> << >>]

AssembleDone ==
  /\ pc = "assembling"
  /\ \E p \in asmInFlight, o \in AsmOutcomes(fileInfos) :
       LET n == Len(filesToProcess)
           infos == Append(fileInfos, FileInfoEntry(p, o))
           next == NextAssemblies(Len(infos), n)
       IN /\ Budget(o.kind # "ok")
          /\ fileInfos' = infos
          /\ asmInFlight' = (asmInFlight \ {p}) \cup next
          /\ asmCalls' = asmCalls \o SortedSeq(next)
          /\ IF Len(infos) = n
             THEN BeginManager(reviewComment, updateCalls, createCalls)
             ELSE UNCHANGED << pc, updateCalls, createCalls, escaped,
                               llmCalls >>
  /\ UNCHANGED << inputVars, reviewComment, prComments, commentFailed, transitions,
                  filesToProcess, managerPlan, managerFailed, fanVars,
                  results, finalSummary, finalFailed, call, calc,
                  limit, runs >>


\* ------------------------------------------------- LLM call outcomes
\* What analyzeWithAIDep can do to its caller: return a text (possibly
\* empty) or throw an Error with a message.
LlmOk(t) == [ok |-> TRUE, text |-> t, msg |-> ""]
LlmThrow(m) == [ok |-> FALSE, text |-> NoText, msg |-> m]

PlanOutcomes ==
  { LlmOk(Text("plan", TRUE, FALSE)), LlmOk(NoText) }
  \cup { LlmThrow(m) : m \in Messages }

ReviewerOutcomes ==
  { LlmOk(Text("review", TRUE, FALSE)), LlmOk(NoText) }
  \cup { LlmThrow(m) : m \in Messages }

LineOutcomes ==
  { LlmOk(Text("fix", TRUE, FALSE)), LlmOk(Text("fix", FALSE, TRUE)),
    LlmOk(Text("lgtm", TRUE, FALSE)), LlmOk(Text("", FALSE, TRUE)),
    LlmOk(NoText) }
  \cup { LlmThrow(m) : m \in Messages }

\* The response of the merge call, cut at END_COMMENT: for each section,
\* whether the LINES/COMMENT pattern matches, the numbers and the comment.
Section(m, ls, c) == [match |-> m, lines |-> ls, comment |-> c]

MergeResponses(la) ==
  { << >>,
    << Section(FALSE, << >>, NoText) >>,
    << Section(TRUE, [k \in 1..Len(la) |-> la[k].line], la[1].comment) >>,
    << Section(TRUE, << la[1].line >>, Text("fix", TRUE, TRUE)),
       Section(TRUE, << la[2].line >>, Text("fix", FALSE, FALSE)) >>,
    << Section(TRUE, << >>, Text("fix", TRUE, FALSE)),
       Section(TRUE, << la[1].line >>, NoText) >>,
    << Section(TRUE, << 99 >>, Text("rename", TRUE, FALSE)),
       Section(TRUE, << la[1].line >>, Text("fix", FALSE, FALSE)) >> }

\* ------------------------------------- mergeSimilarLineAnalyses, 200-234
IdentityMerge(la) ==
  [k \in 1..Len(la) |-> [lines |-> << la[k].line >>, comment |-> la[k].comment]]

ParseMerged(sections) ==
  LET ok(sec) == sec.match /\ Len(sec.lines) > 0 /\ IsTruthy(Trim(sec.comment))
      kept == SelectSeq(sections, ok)
  IN [k \in 1..Len(kept) |->
        [lines |-> kept[k].lines, comment |-> Trim(kept[k].comment)]]

\* what the merge call can do: return a response, return a value whose
\* parsing throws, or throw
MergeOutcomes(la) ==
  { [ok |-> TRUE, parse |-> "ok", sections |-> r, msg |-> ""] :
       r \in MergeResponses(la) }
  \cup { [ok |-> TRUE, parse |-> "throws", sections |-> << >>, msg |-> m] :
            m \in Messages }
  \cup { [ok |-> FALSE, parse |-> "ok", sections |-> << >>, msg |-> m] :
            m \in Messages }

MergedGroupsKeepsEmpty(la, o) ==
  IF ~o.ok \/ o.parse = "throws" THEN IdentityMerge(la)
  ELSE ParseMerged(o.sections)

MergedGroups(la, o) ==
  IF ~o.ok \/ o.parse = "throws" THEN IdentityMerge(la)
  ELSE LET merged == ParseMerged(o.sections)
       IN IF Len(merged) > 0 THEN merged ELSE IdentityMerge(la)

\* ------------------------------------------- the limiter, lines 77, 643
NoResult == [status |-> "none", error |-> "", analysis |-> NoText]

NewTask == [pc |-> "queued", analysis |-> NoText, analysisError |-> "",
            lineIdx |-> 0, lineAnalyses |-> << >>, groups |-> << >>,
            gIdx |-> 0, result |-> NoResult]

RunningPcs == {"reviewer", "line", "merge", "post"}

\* pLimit admits a queued task only while fewer than the limit are active
CanStartOffByOne(active) == active <= CONCURRENCY_LIMIT

CanStart(active) == active < CONCURRENCY_LIMIT

\* The task's synchronous prefix: lines 644-654
StartTask(F, i) ==
  LET f == fileInfos[i]
  IN IF f.status # "ok"
     THEN [F EXCEPT !.task[i].pc = "done",
                    !.task[i].result = [status |-> "error", error |-> f.error,
                                        analysis |-> NoText]]
     ELSE IF "reviewer" \in missingPrompts
     THEN [F EXCEPT !.task[i].pc = "thrown"]
     ELSE [F EXCEPT !.task[i].pc = "reviewer",
                    !.llm = @ + 1,
                    !.activeCount = @ + 1]

RECURSIVE Drain(_)
Drain(F) ==
  IF F.queue # << >> /\ CanStart(F.activeCount)
  THEN Drain(StartTask([F EXCEPT !.queue = Tail(@)], Head(F.queue)))
  ELSE F

\* a started task has settled: pLimit's next()
Release(F) == Drain([F EXCEPT !.activeCount = @ - 1])

\* lines 707-718
TaskResultAlwaysReviewed(t) ==
  [status |-> "reviewed", error |-> "", analysis |-> t.analysis]

TaskResult(t) ==
  IF IsTruthy(t.analysis)
  THEN [status |-> "reviewed", error |-> "", analysis |-> t.analysis]
  ELSE [status |-> "error",
        error |-> IF t.analysisError # "" THEN t.analysisError
                  ELSE "Failed to analyze file",
        analysis |-> t.analysis]

\* the task's locals are gone once it has settled
FinishTask(F, i) ==
  Release([F EXCEPT !.task[i] = [NewTask EXCEPT !.pc = "done",
                                   !.result = TaskResult(F.task[i])]])

ThrowTask(F, i) ==
  Release([F EXCEPT !.task[i] = [NewTask EXCEPT !.pc = "thrown"]])

\* a line-level call of lines 662-676 and what it came to
LineCall(line) == [line |-> line, state |-> "pending"]

LineCallState(o) ==
  IF ~o.ok THEN "threw" ELSE IF IsTruthy(o.text) THEN "text" ELSE "empty"

\* the createReviewComment call of lines 688-697 for a merged finding
PostCallAnchoredLast(i, grp, key) ==
  [file |-> i, line |-> grp.lines[Len(grp.lines)], lines |-> grp.lines,
   key |-> key.core, state |-> "pending"]

PostCall(i, grp, key) ==
  [file |-> i, line |-> grp.lines[1], lines |-> grp.lines,
   key |-> key.core, state |-> "pending"]

\* the task's pending createReviewComment call has settled
SettlePost(F, i, ok) ==
  [F EXCEPT !.pcalls =
     [k \in 1..Len(@) |->
        IF @[k].file = i /\ @[k].state = "pending"
        THEN [@[k] EXCEPT !.state = IF ok THEN "ok" ELSE "failed"]
        ELSE @[k]]]

\* postedLineAnalyses.add(key), line 686
MarkPostedNever(posted, key) == posted

MarkPosted(posted, key) == posted \cup {key}

\* the loop over the merged findings, lines 681-703, up to the next await
RECURSIVE PostLoop(_, _, _)
PostLoop(F, i, g) ==
  LET grps == F.task[i].groups
  IN IF g > Len(grps) THEN FinishTask(F, i)
     ELSE LET trimmed == Trim(grps[g].comment)
              key == ToLowerCase(trimmed)
          IN IF ~shouldPostInlineComment(trimmed) THEN PostLoop(F, i, g + 1)
             ELSE IF key \in F.posted
             THEN PostLoop([F EXCEPT !.skipped = @ \cup {key.core}], i, g + 1)
             ELSE [F EXCEPT !.posted = MarkPosted(@, key),
                            !.task[i].pc = "post",
                            !.task[i].gIdx = g,
                            !.pcalls = Append(@, PostCall(i, grps[g], key)),
                            !.rcCalls = [@ EXCEPT ![key.core] = @ + 1]]

LinesToCommentAll(i) == fileInfos[i].changedLines

LinesToComment(i) ==
  LET cl == fileInfos[i].changedLines
  IN SubSeq(cl, 1, Min(Len(cl), LINE_SAMPLE))

\* after the last line-level call: lines 679-680
AfterLinesNeverMerges(F, i) ==
  LET la == F.task[i].lineAnalyses
  IN IF Len(la) = 0 THEN FinishTask(F, i)
     ELSE PostLoop([F EXCEPT !.task[i].groups = IdentityMerge(la),
                             !.task[i].lineAnalyses = << >>], i, 1)

AfterLines(F, i) ==
  LET la == F.task[i].lineAnalyses
  IN IF Len(la) = 0 THEN FinishTask(F, i)
     ELSE IF Len(la) = 1
     THEN PostLoop([F EXCEPT !.task[i].groups = IdentityMerge(la),
                             !.task[i].lineAnalyses = << >>], i, 1)
     ELSE IF "merge" \in missingPrompts THEN ThrowTask(F, i)
     ELSE [F EXCEPT !.task[i].pc = "merge", !.llm = @ + 1]

Fan == [task |-> task, queue |-> queue, activeCount |-> activeCount,
        posted |-> postedLineAnalyses, refs |-> referencedLines,
        rcCalls |-> reviewCommentCalls, skipped |-> suppressed,
        failed |-> failedPosts, lcalls |-> lineCalls, pcalls |-> postCalls,
        llm |-> llmCalls]

\* A step of the fan-out: the new state of the tasks and, when a task has
\* thrown while Promise.all is awaited, the outer catch.
ApplyFan(F, old) ==
  /\ task' = F.task
  /\ queue' = F.queue
  /\ activeCount' = F.activeCount
  /\ postedLineAnalyses' = F.posted
  /\ referencedLines' = F.refs
  /\ reviewCommentCalls' = F.rcCalls
  /\ suppressed' = F.skipped
  /\ failedPosts' = F.failed
  /\ lineCalls' = F.lcalls
  /\ postCalls' = F.pcalls
  /\ llmCalls' = F.llm
  /\ IF /\ pc \in {"manager", "fanout"}
        /\ \E j \in 1..Len(F.task) :
             F.task[j].pc = "thrown" /\ old[j].pc # "thrown"
     THEN Catch("prompt", reviewComment, updateCalls, createCalls)
     ELSE /\ pc' = IF pc = "manager" THEN "fanout" ELSE pc
          /\ UNCHANGED << escaped, updateCalls, createCalls >>

\* ------------------------------------------------------ lines 636-643
ManagerDone ==
  /\ pc = "manager"
  /\ \E o \in PlanOutcomes :
       LET n == Len(fileInfos)
           fresh == [i \in 1..n |-> NewTask]
           F0 == [task |-> fresh, queue |-> [i \in 1..n |-> i],
                  activeCount |-> 0, posted |-> postedLineAnalyses,
                  refs |-> referencedLines, rcCalls |-> reviewCommentCalls,
                  skipped |-> suppressed, failed |-> failedPosts,
                  lcalls |-> [i \in 1..n |-> << >>], pcalls |-> postCalls,
                  llm |-> llmCalls]
       IN /\ Budget(LlmFault(o))
          /\ managerPlan' = IF o.ok THEN o.text ELSE NoText
          /\ managerFailed' = ~o.ok
          /\ ApplyFan(Drain(F0), fresh)
  /\ UNCHANGED << inputVars, reviewComment, prComments, commentFailed, transitions,
                  asmVars, results, finalSummary, finalFailed, call, calc,
                  limit, runs >>

\* ------------------------------------------------------ lines 654-660
TaskReviewerDone(i) ==
  /\ task[i].pc = "reviewer"
  /\ \E o \in ReviewerOutcomes :
       LET F1 == [Fan EXCEPT !.task[i].analysis = o.text,
                             !.task[i].analysisError = o.msg]
           F2 == IF IsTruthy(o.text) /\ Len(fileInfos[i].changedLines) > 0
                 THEN IF "line" \in missingPrompts THEN ThrowTask(F1, i)
                      ELSE [F1 EXCEPT !.task[i].pc = "line",
                                      !.task[i].lineIdx = 1,
                                      !.lcalls[i] = Append(@,
                                         LineCall(LinesToComment(i)[1])),
                                      !.llm = @ + 1]
                 ELSE FinishTask(F1, i)
       IN Budget(LlmFault(o)) /\ ApplyFan(F2, task)
  /\ UNCHANGED << inputVars, reviewComment, prComments, commentFailed, transitions,
                  asmVars, managerPlan, managerFailed, results,
                  finalSummary, finalFailed, call, calc,
                  limit, runs >>

\* ------------------------------------------------------ lines 662-680
TaskLineDone(i) ==
  /\ task[i].pc = "line"
  /\ \E o \in LineOutcomes :
       LET k == task[i].lineIdx
           ltc == LinesToComment(i)
           la == IF o.ok /\ IsTruthy(o.text)
                 THEN Append(task[i].lineAnalyses,
                             [line |-> ltc[k], comment |-> Trim(o.text)])
                 ELSE task[i].lineAnalyses
           F1 == [Fan EXCEPT !.task[i].lineAnalyses = la,
                             !.lcalls[i][k].state = LineCallState(o)]
           F2 == IF k < Len(ltc)
                 THEN [F1 EXCEPT !.task[i].lineIdx = k + 1,
                                 !.lcalls[i] = Append(@, LineCall(ltc[k + 1])),
                                 !.llm = @ + 1]
                 ELSE AfterLines(F1, i)
       IN Budget(LlmFault(o)) /\ ApplyFan(F2, task)
  /\ UNCHANGED << inputVars, reviewComment, prComments, commentFailed, transitions,
                  asmVars, managerPlan, managerFailed, results,
                  finalSummary, finalFailed, call, calc,
                  limit, runs >>

\* ------------------------------------ lines 680-681 and 207-233
TaskMergeDone(i) ==
  /\ task[i].pc = "merge"
  /\ \E o \in MergeOutcomes(task[i].lineAnalyses) :
       LET F1 == [Fan EXCEPT !.task[i].groups =
                               MergedGroups(task[i].lineAnalyses, o),
                             !.task[i].lineAnalyses = << >>]
       IN Budget(~o.ok) /\ ApplyFan(PostLoop(F1, i, 1), task)
  /\ UNCHANGED << inputVars, reviewComment, prComments, commentFailed, transitions,
                  asmVars, managerPlan, managerFailed, results,
                  finalSummary, finalFailed, call, calc,
                  limit, runs >>

\* createReviewComment has settled, lines 688-701: a rejection is logged
\* and the loop goes on with the next finding
OnPostSettledAborts(F, i, g, ok) ==
  LET grp == F.task[i].groups[g]
      key == ToLowerCase(Trim(grp.comment))
  IN IF ok
     THEN PostLoop([SettlePost(F, i, ok) EXCEPT
                      !.refs = Append(@, [file |-> i, lines |-> grp.lines])],
                   i, g + 1)
     ELSE ThrowTask([SettlePost(F, i, ok) EXCEPT
                       !.failed = @ \cup {[file |-> i, key |-> key.core]}], i)

OnPostSettled(F, i, g, ok) ==
  LET grp == F.task[i].groups[g]
      key == ToLowerCase(Trim(grp.comment))
  IN IF ok
     THEN PostLoop([SettlePost(F, i, ok) EXCEPT
                      !.refs = Append(@, [file |-> i, lines |-> grp.lines])],
                   i, g + 1)
     ELSE PostLoop([SettlePost(F, i, ok) EXCEPT
                      !.failed = @ \cup {[file |-> i, key |-> key.core]}],
                   i, g + 1)

\* ------------------------------------------------------ lines 688-703
TaskPostDone(i) ==
  /\ task[i].pc = "post"
  /\ \E ok \in BOOLEAN :
       Budget(~ok) /\ ApplyFan(OnPostSettled(Fan, i, task[i].gIdx, ok), task)
  /\ UNCHANGED << inputVars, reviewComment, prComments, commentFailed, transitions,
                  asmVars, managerPlan, managerFailed, results,
                  finalSummary, finalFailed, call, calc,
                  limit, runs >>


\* ------------------------------------------------------ lines 719-725
FanoutJoin ==
  /\ pc = "fanout"
  /\ \A i \in 1..Len(task) : task[i].pc = "done"
  /\ results' = [i \in 1..Len(task) |-> task[i].result]
  /\ IF "final" \in missingPrompts
     THEN Catch("prompt", reviewComment, updateCalls, createCalls)
          /\ UNCHANGED llmCalls
     ELSE /\ pc' = "final"
          /\ llmCalls' = llmCalls + 1
          /\ UNCHANGED << escaped, updateCalls, createCalls >>
  /\ UNCHANGED << inputVars, reviewComment, prComments, commentFailed, transitions,
                  asmVars, managerPlan, managerFailed, fanVars,
                  finalSummary, finalFailed, faults, call, calc,
                  limit, runs >>

\* finalSummary after the final call, lines 723-729
FinalSummaryOfNoMessage(o) ==
  IF o.ok THEN [kind |-> "text", text |-> o.text, msg |-> ""]
  ELSE [kind |-> "placeholder", text |-> NoText, msg |-> ""]

FinalSummaryOf(o) ==
  IF o.ok THEN [kind |-> "text", text |-> o.text, msg |-> ""]
  ELSE [kind |-> "placeholder", text |-> NoText, msg |-> o.msg]

\* the body built at lines 731-757
ReviewBody(summary, refs, res) ==
  [kind |-> "review", summary |-> summary, refs |-> refs,
   errors |-> { i \in 1..Len(res) : res[i].status = "error" }]

FinalDone ==
  /\ pc = "final"
  /\ \E o \in PlanOutcomes :
       /\ Budget(LlmFault(o))
       /\ finalSummary' = FinalSummaryOf(o)
       /\ finalFailed' = ~o.ok
       /\ updateCalls' = Append(updateCalls,
            [id |-> reviewComment,
             body |-> ReviewBody(FinalSummaryOf(o), referencedLines, results)])
  /\ pc' = "updating"
  /\ UNCHANGED << inputVars, reviewComment, prComments, createCalls,
                  commentFailed, transitions, asmVars, managerPlan, managerFailed,
                  fanVars, results, escaped, llmCalls, call, calc,
                  limit, runs >>

\* ------------------------------------------------------ lines 758-760
UpdateDone ==
  /\ pc = "updating"
  /\ \E ok \in BOOLEAN :
       /\ UNCHANGED faults
       /\ IF ok
          THEN /\ prComments' = [prComments EXCEPT ![reviewComment] =
                                    updateCalls[Len(updateCalls)].body]
               /\ transitions' = transitions + 1
               /\ pc' = "done"
               /\ UNCHANGED << commentFailed, escaped, updateCalls,
                               createCalls >>
          ELSE /\ commentFailed' = TRUE
               /\ Catch("update", reviewComment, updateCalls, createCalls)
               /\ UNCHANGED << prComments, transitions >>
  /\ UNCHANGED << inputVars, reviewComment, asmVars, managerPlan,
                  managerFailed, fanVars, results, finalSummary,
                  finalFailed, llmCalls, call, calc,
                  limit, runs >>

\* A failure to post the error body is only logged, line 767
AfterErrorPostRejects(ok) == IF ok THEN "done" ELSE "rejected"

AfterErrorPost(ok) == "done"

\* ------------------------------------------------------ lines 762-768
ErrPostDone ==
  /\ pc = "errposting"
  /\ \E ok \in BOOLEAN :
       /\ UNCHANGED faults
       /\ pc' = AfterErrorPost(ok)
       /\ IF ok
          THEN /\ prComments' =
                    IF reviewComment # 0
                    THEN [prComments EXCEPT ![reviewComment] = ErrorBody]
                    ELSE Append(prComments, ErrorBody)
               /\ transitions' = transitions + 1
               /\ UNCHANGED commentFailed
          ELSE /\ commentFailed' = TRUE
               /\ UNCHANGED << prComments, transitions >>
  /\ UNCHANGED << inputVars, reviewComment, createCalls, updateCalls,
                  asmVars, managerPlan, managerFailed, fanVars, results,
                  finalSummary, finalFailed, escaped, llmCalls, call, calc,
                  limit, runs >>

Next ==
  \/ Start
  \/ CreateDone
  \/ CommitsDone
  \/ AssembleDone
  \/ ManagerDone
  \/ \E i \in 1..Len(task) : TaskReviewerDone(i)
  \/ \E i \in 1..Len(task) : TaskLineDone(i)
  \/ \E i \in 1..Len(task) : TaskMergeDone(i)
  \/ \E i \in 1..Len(task) : TaskPostDone(i)
  \/ FanoutJoin
  \/ FinalDone
  \/ UpdateDone
  \/ ErrPostDone

Spec == Init /\ [][Next]_vars

NextAssembly ==
  \/ Start
  \/ CreateDone
  \/ CommitsDone
  \/ AssembleDone
  \/ ErrPostDone

SpecAssembly == InitAssembly /\ [][NextAssembly]_vars

\* Every external call settles: the collaborators answer or fail.
FairSpec == Spec /\ WF_vars(Next)


\* ------------------------------------------ analyzeWithAI, lines 89-122
\* Each call arms a timer that aborts the call's AbortController after
\* REQUEST_TIMEOUT; elapsed counts the time the call has been pending.
InitTimeout ==
  /\ files = << >>
  /\ initialComment = "none"
  /\ missingPrompts = {}
  /\ InitRun
  /\ faults = 0
  /\ call = [c \in 1..MaxCalls |-> IdleCall]
  /\ InitLib

\* const controller = new AbortController(); setTimeout(...); generate(...)
CallStart(c) ==
  /\ call[c].state = "idle"
  /\ call' = [call EXCEPT ![c] = [state |-> "pending", timer |-> "armed",
                                  elapsed |-> 0]]
  /\ UNCHANGED runVars

\* What controller.abort() does to the pending generate call: the call was
\* made as llmClient.generate(message, { }), without the controller's
\* signal, so it stays pending (line 96).
OnAbort(state) == state

\* time passes for a pending call; at REQUEST_TIMEOUT its timer fires
Tick(c) ==
  /\ call[c].state = "pending"
  /\ call[c].elapsed < REQUEST_TIMEOUT
  /\ LET e == call[c].elapsed + 1
     IN call' = [call EXCEPT ![c] =
                   IF e = REQUEST_TIMEOUT /\ call[c].timer = "armed"
                   THEN [state |-> OnAbort(call[c].state), timer |-> "fired",
                         elapsed |-> e]
                   ELSE [call[c] EXCEPT !.elapsed = e]]
  /\ UNCHANGED runVars

\* clearTimeout(timeoutId), lines 97 and 100
ClearTimeout(timer) == IF timer = "armed" THEN "cleared" ELSE timer

\* generate resolves: analyzeWithAI returns the text, lines 96-98
GenerateResolve(c) ==
  /\ call[c].state = "pending"
  /\ call' = [call EXCEPT ![c].state = "returned",
                          ![c].timer = ClearTimeout(call[c].timer)]
  /\ UNCHANGED runVars

\* the error analyzeWithAI throws for the error generate rejected with,
\* lines 99-121
Rethrown(name) == IF name = "AbortError" THEN "timedout" ELSE "failed"

GenerateReject(c) ==
  /\ call[c].state = "pending"
  /\ \E name \in {"AbortError", "Error"} :
       call' = [call EXCEPT ![c].state = Rethrown(name),
                            ![c].timer = ClearTimeout(call[c].timer)]
  /\ UNCHANGED runVars

NextTimeout ==
  \/ \E c \in 1..MaxCalls : CallStart(c)
  \/ \E c \in 1..MaxCalls : Tick(c)
  \/ \E c \in 1..MaxCalls : GenerateResolve(c)
  \/ \E c \in 1..MaxCalls : GenerateReject(c)

SpecTimeout == InitTimeout /\ [][NextTimeout]_vars


\* ------------------------- mergeSimilarLineAnalyses on its own, 200-234
MaxFindings == 3

FindingComments == { Text("fix", TRUE, TRUE), Text("lgtm", FALSE, FALSE) }

FindingLists ==
  UNION { { [k \in 1..n |-> [line |-> AllChangedLines[k], comment |-> c[k]]] :
              c \in [1..n -> FindingComments] } : n \in 0..MaxFindings }

NoMergeOutcome == [ok |-> TRUE, parse |-> "ok", sections |-> << >>, msg |-> ""]

InitMerge ==
  /\ files = << >>
  /\ initialComment = "none"
  /\ missingPrompts \in { {}, {"merge"} }
  /\ InitRun
  /\ faults = 0
  /\ call = [c \in 1..MaxCalls |-> IdleCall]
  /\ limit = IdleLimit
  /\ runs = << >>
  /\ \E la \in FindingLists :
       calc = [fn |-> "mergeSimilarLineAnalyses", stage |-> "called",
               lineAnalyses |-> la, outcome |-> NoMergeOutcome,
               result |-> << >>]

\* lines 201-207: the early returns, loadPrompt and the merge call
MergeCall ==
  /\ calc.fn = "mergeSimilarLineAnalyses"
  /\ calc.stage = "called"
  /\ LET la == calc.lineAnalyses
     IN calc' = IF Len(la) = 0
                THEN [calc EXCEPT !.stage = "returned", !.result = << >>]
                ELSE IF Len(la) = 1
                THEN [calc EXCEPT !.stage = "returned",
                                  !.result = IdentityMerge(la)]
                ELSE IF "merge" \in missingPrompts
                THEN [calc EXCEPT !.stage = "thrown"]
                ELSE [calc EXCEPT !.stage = "awaiting"]
  /\ UNCHANGED << reviewVars, call, limit, runs >>

\* lines 207-233: the merge call has settled
MergeSettle ==
  /\ calc.fn = "mergeSimilarLineAnalyses"
  /\ calc.stage = "awaiting"
  /\ \E o \in MergeOutcomes(calc.lineAnalyses) :
       calc' = [calc EXCEPT !.stage = "returned", !.outcome = o,
                            !.result = MergedGroups(calc.lineAnalyses, o)]
  /\ UNCHANGED << reviewVars, call, limit, runs >>

NextMerge == MergeCall \/ MergeSettle

SpecMerge == InitMerge /\ [][NextMerge]_vars

\* --------------------- concurrent invocations and the limiter of line 77
\* Each invocation of processReviewCommand maps its files onto the one
\* module-level limit; a task is new, queued, running or done.
MaxRuns == 2
MaxRunFiles == 3

InitRuns ==
  /\ files = << >>
  /\ initialComment = "none"
  /\ missingPrompts = {}
  /\ InitRun
  /\ faults = 0
  /\ call = [c \in 1..MaxCalls |-> IdleCall]
  /\ calc = NoCalc
  /\ limit = IdleLimit
  /\ runs \in [1..MaxRuns -> { [i \in 1..n |-> "new"] : n \in 1..MaxRunFiles }]

\* the limiter starts queued tasks, whichever run enqueued them
RECURSIVE DrainShared(_, _)
DrainShared(L, R) ==
  IF L.queue # << >> /\ CanStart(L.activeCount)
  THEN LET h == Head(L.queue)
       IN DrainShared([activeCount |-> L.activeCount + 1,
                       queue |-> Tail(L.queue)],
                      [R EXCEPT ![h[1]][h[2]] = "running"])
  ELSE [limit |-> L, runs |-> R]

\* line 643 of run r: fileInfos.map(f => limit(...))
RunFanout(r) ==
  /\ \A i \in 1..Len(runs[r]) : runs[r][i] = "new"
  /\ LET n == Len(runs[r])
         D == DrainShared(
                [limit EXCEPT !.queue = @ \o [i \in 1..n |-> << r, i >>]],
                [runs EXCEPT ![r] = [i \in 1..n |-> "queued"]])
     IN limit' = D.limit /\ runs' = D.runs
  /\ UNCHANGED << reviewVars, call, calc >>

\* a task of run r settles: the limiter's next()
RunTaskSettle(r, i) ==
  /\ runs[r][i] = "running"
  /\ LET D == DrainShared([limit EXCEPT !.activeCount = @ - 1],
                          [runs EXCEPT ![r][i] = "done"])
     IN limit' = D.limit /\ runs' = D.runs
  /\ UNCHANGED << reviewVars, call, calc >>

NextRuns ==
  \/ \E r \in 1..MaxRuns : RunFanout(r)
  \/ \E r \in 1..MaxRuns : \E i \in 1..Len(runs[r]) : RunTaskSettle(r, i)

SpecRuns == InitRuns /\ [][NextRuns]_vars

\* ------------------------------------- getChangedLineNumbers, 346-374
\* A line of a patch is what it is in the diff (a hunk header with its base
\* and head start numbers, an added, removed or context line, or the marker
\* "\ No newline at end of file") and, for a line of file text, the first
\* two characters of that text: "++", "--" or anything else ("").
MaxPatchLines == 3

PatchLine(kind, lead, a, c) == [kind |-> kind, lead |-> lead, a |-> a, c |-> c]

HunkHeaders == { PatchLine("hunk", "", 1, 1), PatchLine("hunk", "", 3, 4) }

BodyLines ==
  { PatchLine("added", "", 0, 0), PatchLine("added", "++", 0, 0),
    PatchLine("removed", "", 0, 0), PatchLine("removed", "--", 0, 0),
    PatchLine("context", "", 0, 0), PatchLine("nonewline", "", 0, 0),
    PatchLine("hunk", "", 7, 9) }

\* a hunk header, then lines; the marker only follows a line of file text
Patches ==
  { << h >> \o b : h \in HunkHeaders,
                   b \in { x \in SeqsUpTo(BodyLines, MaxPatchLines) :
                             \A k \in 1..Len(x) :
                               x[k].kind = "nonewline" =>
                                 /\ k > 1
                                 /\ x[k - 1].kind \in
                                      {"added", "removed", "context"} } }

\* the characters the text of the patch line starts with
FirstChar(l) ==
  CASE l.kind = "hunk" -> "@"
    [] l.kind = "added" -> "+"
    [] l.kind = "removed" -> "-"
    [] l.kind = "context" -> " "
    [] OTHER -> "\\"

\* line.startsWith('+++') and line.startsWith('---')
StartsWithTriple(l, ch) ==
  FirstChar(l) = ch /\ l.lead = (IF ch = "+" THEN "++" ELSE "--")

InitLines ==
  /\ files = << >>
  /\ initialComment = "none"
  /\ missingPrompts = {}
  /\ InitRun
  /\ faults = 0
  /\ call = [c \in 1..MaxCalls |-> IdleCall]
  /\ limit = IdleLimit
  /\ runs = << >>
  /\ \E p \in Patches :
       calc = [fn |-> "getChangedLineNumbers", lines |-> p, i |-> 1,
               currentHead |-> 0, currentBase |-> 0,
               headLines |-> << >>, baseLines |-> << >>]

ScanGuard ==
  /\ calc.fn = "getChangedLineNumbers"
  /\ calc.i <= Len(calc.lines)

\* lines 354-361
ScanHunkHeader ==
  /\ ScanGuard
  /\ LET l == calc.lines[calc.i]
     IN /\ FirstChar(l) = "@"
        /\ calc' = [calc EXCEPT !.i = @ + 1,
                                !.currentBase = l.a - 1,
                                !.currentHead = l.c - 1]
  /\ UNCHANGED << reviewVars, call, limit, runs >>

\* lines 362-364
ScanAdded ==
  /\ ScanGuard
  /\ LET l == calc.lines[calc.i]
     IN /\ FirstChar(l) = "+" /\ ~StartsWithTriple(l, "+")
        /\ calc' = [calc EXCEPT !.i = @ + 1,
                                !.headLines = Append(@, calc.currentHead + 1),
                                !.currentHead = @ + 1]
  /\ UNCHANGED << reviewVars, call, limit, runs >>

\* lines 365-367
ScanRemoved ==
  /\ ScanGuard
  /\ LET l == calc.lines[calc.i]
     IN /\ FirstChar(l) = "-" /\ ~StartsWithTriple(l, "-")
        /\ calc' = [calc EXCEPT !.i = @ + 1,
                                !.baseLines = Append(@, calc.currentBase + 1),
                                !.currentBase = @ + 1]
  /\ UNCHANGED << reviewVars, call, limit, runs >>

\* lines 368-371
ScanOther ==
  /\ ScanGuard
  /\ LET l == calc.lines[calc.i]
     IN /\ FirstChar(l) # "@"
        /\ ~(FirstChar(l) = "+" /\ ~StartsWithTriple(l, "+"))
        /\ ~(FirstChar(l) = "-" /\ ~StartsWithTriple(l, "-"))
        /\ calc' = [calc EXCEPT !.i = @ + 1,
                                !.currentHead = @ + 1,
                                !.currentBase = @ + 1]
  /\ UNCHANGED << reviewVars, call, limit, runs >>

NextLines == ScanHunkHeader \/ ScanAdded \/ ScanRemoved \/ ScanOther

SpecLines == InitLines /\ [][NextLines]_vars

\* ---------------------------------- expandLineNumbersToBlock, 380-444
\* A line of content is modelled by what the function reads of it: its
\* braces, whether the keyword pattern of line 392 matches it, whether it is
\* blank, and its indentation.
MaxContent == 5
MaxPicked == 3

ContentLine(text, indent) == [text |-> text, indent |-> indent]

BraceLines == { ContentLine("switch (x) {", 0), ContentLine("if (x) {", 0),
                ContentLine("stmt;", 0), ContentLine("}", 0) }

IndentedLines == { ContentLine("stmt", 0), ContentLine("stmt", 1),
                   ContentLine("", 0) }

Opens(l) == IF l.text \in {"switch (x) {", "if (x) {"} THEN 1 ELSE 0
Closes(l) == IF l.text = "}" THEN 1 ELSE 0
HasKeyword(l) == l.text \in {"switch (x) {", "if (x) {"}
IsBlank(l) == l.text = ""

Contents ==
  UNION { [1..n -> BraceLines] \cup [1..n -> IndentedLines] :
            n \in 1..MaxContent }

\* content.includes('{') && content.includes('}')
hasBraces(content) ==
  /\ \E i \in 1..Len(content) : Opens(content[i]) > 0
  /\ \E i \in 1..Len(content) : Closes(content[i]) > 0

\* the loops of expandRange, on 1-based line numbers; dflt is the value the
\* bound keeps when the loop ends without a break
RECURSIVE ScanUpBraces(_, _, _, _)
ScanUpBraces(content, i, depth, dflt) ==
  IF i < 1 THEN dflt
  ELSE LET d == depth + Closes(content[i]) - Opens(content[i])
       IN IF d < 0 \/ HasKeyword(content[i]) THEN i
          ELSE ScanUpBraces(content, i - 1, d, dflt)

RECURSIVE ScanDownBraces(_, _, _, _)
ScanDownBraces(content, i, depth, dflt) ==
  IF i > Len(content) THEN dflt
  ELSE LET d == depth + Opens(content[i]) - Closes(content[i])
       IN IF d < 0 THEN i
          ELSE ScanDownBraces(content, i + 1, d, dflt)

RECURSIVE ScanUpIndent(_, _, _, _)
ScanUpIndent(content, i, baseIndent, dflt) ==
  IF i < 1 THEN dflt
  ELSE IF IsBlank(content[i]) THEN ScanUpIndent(content, i - 1, baseIndent, dflt)
  ELSE IF content[i].indent < baseIndent THEN i + 1
  ELSE ScanUpIndent(content, i - 1, baseIndent, dflt)

RECURSIVE ScanDownIndent(_, _, _, _)
ScanDownIndent(content, i, baseIndent, dflt) ==
  IF i > Len(content) THEN dflt
  ELSE IF IsBlank(content[i])
  THEN ScanDownIndent(content, i + 1, baseIndent, dflt)
  ELSE IF content[i].indent < baseIndent THEN i - 1
  ELSE ScanDownIndent(content, i + 1, baseIndent, dflt)

\* lines 385-422
expandRangeZeroBased(content, startLine, endLine) ==
  IF hasBraces(content)
  THEN << ScanUpBraces(content, startLine, 0, startLine) - 1,
          ScanDownBraces(content, endLine, 0, endLine) - 1 >>
  ELSE LET baseIndent == content[startLine].indent
       IN << ScanUpIndent(content, startLine - 1, baseIndent, startLine) - 1,
             ScanDownIndent(content, endLine + 1, baseIndent, endLine) - 1 >>

\* lines 385-422
expandRange(content, startLine, endLine) ==
  IF hasBraces(content)
  THEN << ScanUpBraces(content, startLine, 0, startLine),
          ScanDownBraces(content, endLine, 0, endLine) >>
  ELSE LET baseIndent == content[startLine].indent
       IN << ScanUpIndent(content, startLine - 1, baseIndent, startLine),
             ScanDownIndent(content, endLine + 1, baseIndent, endLine) >>

\* lines 424-435: the runs of consecutive numbers of the sorted list
RECURSIVE RunsFrom(_, _, _, _)
RunsFrom(sorted, i, rangeStart, prev) ==
  IF i > Len(sorted) THEN << << rangeStart, prev >> >>
  ELSE IF sorted[i] = prev + 1
  THEN RunsFrom(sorted, i + 1, rangeStart, sorted[i])
  ELSE << << rangeStart, prev >> >>
         \o RunsFrom(sorted, i + 1, sorted[i], sorted[i])

ContiguousRunsOneSpan(sorted) == << << sorted[1], sorted[Len(sorted)] >> >>

ContiguousRuns(sorted) == RunsFrom(sorted, 2, sorted[1], sorted[1])

InitExpand ==
  /\ files = << >>
  /\ initialComment = "none"
  /\ missingPrompts = {}
  /\ InitRun
  /\ faults = 0
  /\ call = [c \in 1..MaxCalls |-> IdleCall]
  /\ limit = IdleLimit
  /\ runs = << >>
  /\ \E content \in Contents :
       \E picked \in { x \in SUBSET (1..Len(content)) :
                         Cardinality(x) <= MaxPicked } :
         calc = [fn |-> "expandLineNumbersToBlock", stage |-> "called",
                 content |-> content, lineNumbers |-> SortedSeq(picked),
                 ranges |-> << >>, expandedSet |-> {}, result |-> << >>]

\* lines 381-435
ExpandStart ==
  /\ calc.fn = "expandLineNumbersToBlock"
  /\ calc.stage = "called"
  /\ calc' = IF Len(calc.lineNumbers) = 0
             THEN [calc EXCEPT !.stage = "returned",
                               !.result = calc.lineNumbers]
             ELSE [calc EXCEPT !.stage = "expanding",
                               !.ranges = ContiguousRuns(calc.lineNumbers)]
  /\ UNCHANGED << reviewVars, call, limit, runs >>

\* one iteration of the loop at lines 438-441, and the return at line 443
ExpandNextRange ==
  /\ calc.fn = "expandLineNumbersToBlock"
  /\ calc.stage = "expanding"
  /\ LET r == Head(calc.ranges)
         x == expandRange(calc.content, r[1], r[2])
         set == calc.expandedSet \cup (x[1]..x[2])
     IN calc' = IF Len(calc.ranges) = 1
                THEN [calc EXCEPT !.stage = "returned", !.ranges = << >>,
                                  !.expandedSet = set,
                                  !.result = SortedSeq(set)]
                ELSE [calc EXCEPT !.ranges = Tail(@), !.expandedSet = set]
  /\ UNCHANGED << reviewVars, call, limit, runs >>

NextExpand == ExpandStart \/ ExpandNextRange

SpecExpand == InitExpand /\ [][NextExpand]_vars

\* --------------------------------------- generateContextDiff, 449-468
\* A file is the sequence of its lines; a line is an identifier, equal
\* identifiers are equal texts. The base file is lines 1..n; the head file
\* is the base file with k lines removed at position p and j new lines
\* (n+1 .. n+j) put in their place.
MaxFileLines == 24
MaxEdit == 2
CONTEXT_LINES == 10

BaseFile(n) == [i \in 1..n |-> i]

HeadFile(n, p, k, j) ==
  SubSeq(BaseFile(n), 1, p - 1)
    \o [i \in 1..j |-> n + i]
    \o SubSeq(BaseFile(n), p + k, n)

Max(a, b) == IF a > b THEN a ELSE b

\* content.split('\n').slice(from, to), both 0-based, to exclusive
Slice(lines, from, to) == SubSeq(lines, from + 1, Min(to, Len(lines)))

\* createTwoFilesPatch: the edit script of two files, removals before
\* additions, ...
RECURSIVE EditScript(_, _, _, _)
EditScript(old, new, i, j) ==
  IF i > Len(old) /\ j > Len(new) THEN << >>
  ELSE IF i <= Len(old) /\ j <= Len(new) /\ old[i] = new[j]
  THEN << "context" >> \o EditScript(old, new, i + 1, j + 1)
  ELSE IF i <= Len(old) /\ ~(\E m \in j..Len(new) : new[m] = old[i])
  THEN << "removed" >> \o EditScript(old, new, i + 1, j)
  ELSE << "added" >> \o EditScript(old, new, i, j + 1)

\* ... cut into hunks with `context` lines around the changes; changes with
\* at most 2 * context unchanged lines between them share a hunk
OldBefore(script, s) ==
  Cardinality({ m \in 1..(s - 1) : script[m] # "added" })

NewBefore(script, s) ==
  Cardinality({ m \in 1..(s - 1) : script[m] # "removed" })

HunkOfSpan(script, first, last, context) ==
  LET from == Max(1, first - context)
      to == Min(Len(script), last + context)
      oldLines == OldBefore(script, to + 1) - OldBefore(script, from)
      newLines == NewBefore(script, to + 1) - NewBefore(script, from)
  IN [oldStart |-> OldBefore(script, from) + (IF oldLines = 0 THEN 0 ELSE 1),
      oldLines |-> oldLines,
      newStart |-> NewBefore(script, from) + (IF newLines = 0 THEN 0 ELSE 1),
      newLines |-> newLines,
      removed |-> { OldBefore(script, m) + 1 :
                      m \in { x \in from..to : script[x] = "removed" } },
      added |-> { NewBefore(script, m) + 1 :
                    m \in { x \in from..to : script[x] = "added" } }]

RECURSIVE HunksFrom(_, _, _, _, _)
HunksFrom(script, changes, first, last, context) ==
  IF changes = << >> THEN << HunkOfSpan(script, first, last, context) >>
  ELSE IF Head(changes) - last - 1 <= 2 * context
  THEN HunksFrom(script, Tail(changes), first, Head(changes), context)
  ELSE << HunkOfSpan(script, first, last, context) >>
         \o HunksFrom(script, Tail(changes), Head(changes), Head(changes),
                      context)

createTwoFilesPatch(old, new, context) ==
  LET script == EditScript(old, new, 1, 1)
      changes == SortedSeq({ m \in 1..Len(script) : script[m] # "context" })
  IN IF changes = << >> THEN << >>
     ELSE HunksFrom(script, Tail(changes), changes[1], changes[1], context)

SetMin(S) == CHOOSE x \in S : \A y \in S : x <= y
SetMax(S) == CHOOSE x \in S : \A y \in S : x >= y

InitContextDiff ==
  /\ files = << >>
  /\ initialComment = "none"
  /\ missingPrompts = {}
  /\ InitRun
  /\ faults = 0
  /\ call = [c \in 1..MaxCalls |-> IdleCall]
  /\ limit = IdleLimit
  /\ runs = << >>
  /\ \E n \in 1..MaxFileLines, k \in 0..MaxEdit, j \in 0..MaxEdit :
       \E p \in 1..(n - k + 1) :
         calc = [fn |-> "generateContextDiff", stage |-> "called",
                 baseContent |-> BaseFile(n),
                 headContent |-> HeadFile(n, p, k, j),
                 baseLinesNums |-> p..(p + k - 1),
                 headLinesNums |-> p..(p + j - 1),
                 start |-> 0, end |-> 0,
                 baseSnippet |-> << >>, headSnippet |-> << >>,
                 result |-> << >>]

\* lines 450-465
ContextDiffWindow ==
  /\ calc.fn = "generateContextDiff"
  /\ calc.stage = "called"
  /\ LET b == calc.baseLinesNums
         h == calc.headLinesNums
         baseLen == Len(calc.baseContent)
         headLen == Len(calc.headContent)
         minBase == IF b # {} THEN Max(1, SetMin(b)) ELSE baseLen
         maxBase == IF b # {} THEN SetMax(b) ELSE 1
         minHead == IF h # {} THEN Max(1, SetMin(h)) ELSE headLen
         maxHead == IF h # {} THEN SetMax(h) ELSE 1
         start == Max(0, Min(minBase, minHead) - 1 - CONTEXT_LINES)
         end == Min(Max(baseLen, headLen) - 1,
                    Max(maxBase, maxHead) - 1 + CONTEXT_LINES)
     IN calc' =
          IF b = {} /\ h = {}
          THEN [calc EXCEPT !.stage = "returned",
                            !.result = createTwoFilesPatch(calc.baseContent,
                                         calc.headContent, CONTEXT_LINES)]
          ELSE [calc EXCEPT !.stage = "window", !.start = start, !.end = end,
                  !.baseSnippet = Slice(calc.baseContent, start, end + 1),
                  !.headSnippet = Slice(calc.headContent, start, end + 1)]
  /\ UNCHANGED << reviewVars, call, limit, runs >>

\* line 467: the patch of the two snippets is returned as it is
ContextDiffPatch ==
  /\ calc.fn = "generateContextDiff"
  /\ calc.stage = "window"
  /\ calc' = [calc EXCEPT !.stage = "returned",
                !.result = createTwoFilesPatch(calc.baseSnippet,
                                               calc.headSnippet,
                                               CONTEXT_LINES)]
  /\ UNCHANGED << reviewVars, call, limit, runs >>

NextContextDiff == ContextDiffWindow \/ ContextDiffPatch

SpecContextDiff == InitContextDiff /\ [][NextContextDiff]_vars


\* ------------------------------------------ processFileDiff, 470-539
\* The content of a file is the sequence of its lines (ContentLine); the
\* empty string is the empty sequence. A file of the repository also has
\* the number of its lines that fit in MAX_FILE_SIZE: less than its length
\* when the file is larger than that.
MaxLineNumber == 14

NotFoundPlaceholder == << ContentLine("[File not found or deleted]", 0) >>

ErrorPlaceholder(message) ==
  << ContentLine(IF message = "boom" THEN "[Error retrieving file: boom]"
                 ELSE "[Error retrieving file: The first argument must be of type string]",
                 0) >>

TruncationMarker == ContentLine("[...truncated due to size...]", 0)

FlatSwitch ==
  << ContentLine("switch (x) {", 0), ContentLine("case 1:", 1),
     ContentLine("default:", 1), ContentLine("}", 0) >>

LongSwitch ==
  << ContentLine("switch (x) {", 0), ContentLine("case 1:", 1) >>
  \o [k \in 1..9 |-> ContentLine("stmt;", 2)]
  \o << ContentLine("if (x) {", 2), ContentLine("}", 2),
        ContentLine("case 2:", 1), ContentLine("default:", 1),
        ContentLine("}", 0) >>

FlatText == << ContentLine("stmt", 0), ContentLine("stmt", 0) >>

RepoFile(text, fits) == [kind |-> "file", text |-> text, fits |-> fits]

\* what octokit.repos.getContent can answer
ContentAnswers ==
  { RepoFile(FlatSwitch, Len(FlatSwitch)), RepoFile(LongSwitch, Len(LongSwitch)),
    RepoFile(FlatText, Len(FlatText)), RepoFile(FlatSwitch, 2),
    [kind |-> "directory"], [kind |-> "notfound"], [kind |-> "error"] }

\* getFileContent, lines 236-268: the value it returns for an answer. A
\* directory listing has neither size nor content: Buffer.from(undefined)
\* throws inside the try block
getFileContent(answer) ==
  CASE answer.kind = "file" ->
         IF answer.fits < Len(answer.text)
         THEN Append(SubSeq(answer.text, 1, answer.fits), TruncationMarker)
         ELSE answer.text
    [] answer.kind = "directory" -> ErrorPlaceholder("The first argument")
    [] answer.kind = "notfound" -> NotFoundPlaceholder
    [] OTHER -> ErrorPlaceholder("boom")

\* lines[startIdx] is undefined for a run that starts beyond the content:
\* reading .match of it throws a TypeError (lines 389 and 408)
RunBeyondContent(content, lineNumbers) ==
  \E r \in { ContiguousRuns(lineNumbers)[k] :
               k \in 1..Len(ContiguousRuns(lineNumbers)) } :
    r[1] > Len(content)

\* expandLineNumbersToBlock, lines 380-444, as its caller sees it
expandLineNumbersToBlock(content, lineNumbers) ==
  IF content = << >> \/ lineNumbers = << >>
  THEN [threw |-> FALSE, lines |-> lineNumbers]
  ELSE IF RunBeyondContent(content, lineNumbers)
  THEN [threw |-> TRUE, lines |-> << >>]
  ELSE LET rs == ContiguousRuns(lineNumbers)
           span(r) == LET x == expandRange(content, r[1], r[2])
                      IN x[1]..x[2]
       IN [threw |-> FALSE,
           lines |-> SortedSeq(UNION { span(rs[k]) : k \in 1..Len(rs) })]

\* getSurroundingLines, lines 154-176: the numbered lines it renders
getSurroundingLines(content, lineNumbers, contextLines) ==
  IF content = << >> THEN << >>
  ELSE LET nums == { lineNumbers[k] : k \in 1..Len(lineNumbers) }
           included == UNION { Max(1, n - contextLines)
                                 ..Min(Len(content), n + contextLines) :
                               n \in nums }
           sorted == SortedSeq(included)
       IN [k \in 1..Len(sorted) |->
             [lineNum |-> sorted[k], lineContent |-> content[sorted[k]],
              changed |-> sorted[k] \in nums]]

LineNumberLists == { << >> } \cup { << n >> : n \in 1..MaxLineNumber }

NoContext == [kind |-> "", content |-> << >>, base |-> << >>, head |-> << >>]

NewFileInfo == [error |-> "", diff |-> "", context |-> NoContext,
                changedLines |-> << >>, headContent |-> << >>,
                instructions |-> << >>]

InitFileDiff ==
  /\ files = << >>
  /\ initialComment = "none"
  /\ missingPrompts = {}
  /\ InitRun
  /\ faults = 0
  /\ call = [c \in 1..MaxCalls |-> IdleCall]
  /\ limit = IdleLimit
  /\ runs = << >>
  /\ \E status \in {"added", "removed", "modified", "renamed"},
        ext \in {"js", "png"}, enabled \in BOOLEAN,
        hl \in LineNumberLists, bl \in LineNumberLists :
       calc = [fn |-> "processFileDiff", stage |-> "called",
               file |-> [status |-> status, ext |-> ext],
               ENABLE_REPO_INSTRUCTIONS |-> enabled,
               headLines |-> hl, baseLines |-> bl,
               fetches |-> << >>, answers |-> << >>,
               contents |-> << >>,
               baseContent |-> << >>, expandedHead |-> << >>,
               expandedBase |-> << >>, fileInfo |-> NewFileInfo]

\* the getFileContent call a file of the given status begins with
FirstContentFetch(status) ==
  [path |-> "file", ref |-> IF status = "added" THEN "head" ELSE "base"]

\* lines 486-491, and getRepoInstructions up to its first await
FileDiffStartNoSkip ==
  /\ calc.fn = "processFileDiff"
  /\ calc.stage = "called"
  /\ calc' = IF calc.ENABLE_REPO_INSTRUCTIONS
             THEN [calc EXCEPT !.stage = "instructions",
                     !.fetches = Append(@, [path |-> "instructions",
                                            ref |-> "head"])]
             ELSE [calc EXCEPT !.stage = "content",
                     !.fetches = Append(@, FirstContentFetch(calc.file.status))]
  /\ UNCHANGED << reviewVars, call, limit, runs >>

FileDiffStart ==
  /\ calc.fn = "processFileDiff"
  /\ calc.stage = "called"
  /\ calc' = IF IsBinary(calc.file)
             THEN [calc EXCEPT !.stage = "returned",
                               !.fileInfo.error = "Binary file - skipped"]
             ELSE IF calc.ENABLE_REPO_INSTRUCTIONS
             THEN [calc EXCEPT !.stage = "instructions",
                     !.fetches = Append(@, [path |-> "instructions",
                                            ref |-> "head"])]
             ELSE [calc EXCEPT !.stage = "content",
                     !.fetches = Append(@, FirstContentFetch(calc.file.status))]
  /\ UNCHANGED << reviewVars, call, limit, runs >>

\* getRepoInstructions for a file of the repository root, lines 281-317
InstructionsSettle ==
  /\ calc.fn = "processFileDiff"
  /\ calc.stage = "instructions"
  /\ \E answer \in { RepoFile(FlatText, Len(FlatText)),
                     [kind |-> "notfound"], [kind |-> "error"] } :
       LET rootContent == getFileContent(answer)
       IN calc' = [calc EXCEPT
            !.stage = "content",
            !.answers = Append(@, answer),
            !.contents = Append(@, rootContent),
            !.fileInfo.instructions =
               IF rootContent # NotFoundPlaceholder THEN rootContent
               ELSE << >>,
            !.fetches = Append(@, FirstContentFetch(calc.file.status))]
  /\ UNCHANGED << reviewVars, call, limit, runs >>

\* lines 494-509: the content of an added or a removed file has arrived
ContentSettle ==
  /\ calc.fn = "processFileDiff"
  /\ calc.stage = "content"
  /\ calc.file.status \in {"added", "removed"}
  /\ \E answer \in ContentAnswers :
       LET content == getFileContent(answer)
           added == calc.file.status = "added"
       IN calc' = [calc EXCEPT
            !.stage = "returned",
            !.answers = Append(@, answer),
            !.contents = Append(@, content),
            !.fileInfo.diff = "patch",
            !.fileInfo.context =
               [NoContext EXCEPT !.kind = IF added THEN "New File"
                                          ELSE "Deleted File",
                                 !.content = content],
            !.fileInfo.changedLines = IF added THEN calc.headLines ELSE << >>,
            !.fileInfo.headContent = IF added THEN content ELSE << >>]
  /\ UNCHANGED << reviewVars, call, limit, runs >>

\* line 512: the base content of a modified or renamed file has arrived
BaseContentSettle ==
  /\ calc.fn = "processFileDiff"
  /\ calc.stage = "content"
  /\ calc.file.status \in {"modified", "renamed"}
  /\ \E answer \in ContentAnswers :
       calc' = [calc EXCEPT
         !.stage = "headContent",
         !.answers = Append(@, answer),
         !.contents = Append(@, getFileContent(answer)),
         !.baseContent = getFileContent(answer),
         !.fetches = Append(@, [path |-> "file", ref |-> "head"])]
  /\ UNCHANGED << reviewVars, call, limit, runs >>

\* lines 513-528, and the catch block at lines 534-538
HeadContentSettle ==
  /\ calc.fn = "processFileDiff"
  /\ calc.stage = "headContent"
  /\ \E answer \in ContentAnswers :
       LET headContent == getFileContent(answer)
           expandedHead == expandLineNumbersToBlock(headContent, calc.headLines)
           expandedBase == expandLineNumbersToBlock(calc.baseContent,
                                                    calc.baseLines)
       IN calc' =
            IF expandedHead.threw \/ expandedBase.threw
            THEN [calc EXCEPT !.stage = "returned",
                              !.answers = Append(@, answer),
                              !.contents = Append(@, headContent),
                              !.fileInfo.error = "Processing error"]
            ELSE [calc EXCEPT
                    !.stage = "returned",
                    !.answers = Append(@, answer),
                    !.contents = Append(@, headContent),
                    !.expandedHead = expandedHead.lines,
                    !.expandedBase = expandedBase.lines,
                    !.fileInfo.context =
                       [NoContext EXCEPT
                          !.kind = "Modified File",
                          !.base = getSurroundingLines(calc.baseContent,
                                     expandedBase.lines, CONTEXT_LINES),
                          !.head = getSurroundingLines(headContent,
                                     expandedHead.lines, CONTEXT_LINES)],
                    !.fileInfo.changedLines = calc.headLines,
                    !.fileInfo.headContent = headContent,
                    !.fileInfo.diff = "contextDiff"]
  /\ UNCHANGED << reviewVars, call, limit, runs >>

NextFileDiff ==
  \/ FileDiffStart
  \/ InstructionsSettle
  \/ ContentSettle
  \/ BaseContentSettle
  \/ HeadContentSettle

SpecFileDiff == InitFileDiff /\ [][NextFileDiff]_vars


\* ------------------------- processFileDiff on a moved block, 511-523
\* The base file is the lines 1..n, cut into four parts; the head file has
\* the two middle parts swapped. Each line also has the two characters its
\* text starts with ("++", "--" or anything else). The patch removes the
\* moved part from its old place and adds it at the new one, in one hunk.
MaxMoveLines == 5

LineLeads == {"", "++", "--"}

\* the patch lines of a part of the file
PartLines(part, kind, leads) ==
  [k \in 1..Len(part) |-> PatchLine(kind, IF kind = "context" THEN ""
                                          ELSE leads[part[k]], 0, 0)]

MovePatch(pre, x, y, post, down, leads) ==
  << PatchLine("hunk", "", 1, 1) >>
  \o PartLines(pre, "context", leads)
  \o (IF down
      THEN PartLines(x, "removed", leads) \o PartLines(y, "context", leads)
             \o PartLines(x, "added", leads)
      ELSE PartLines(y, "added", leads) \o PartLines(x, "context", leads)
             \o PartLines(y, "removed", leads))
  \o PartLines(post, "context", leads)

\* the text of the lines, as expandLineNumbersToBlock reads it: no braces,
\* no indentation
PlainContent(lineIds) == [k \in 1..Len(lineIds) |-> ContentLine("stmt", 0)]

InitMove ==
  /\ files = << >>
  /\ initialComment = "none"
  /\ missingPrompts = {}
  /\ InitRun
  /\ faults = 0
  /\ call = [c \in 1..MaxCalls |-> IdleCall]
  /\ limit = IdleLimit
  /\ runs = << >>
  /\ \E n \in 2..MaxMoveLines, down \in BOOLEAN :
       \E a \in 0..(n - 2), leads \in [1..n -> LineLeads] :
         \E b \in (a + 1)..(n - 1) :
           \E c \in (b + 1)..n :
             LET base == BaseFile(n)
                 pre == SubSeq(base, 1, a)
                 x == SubSeq(base, a + 1, b)
                 y == SubSeq(base, b + 1, c)
                 post == SubSeq(base, c + 1, n)
             IN calc = [fn |-> "getChangedLineNumbers",
                        lines |-> MovePatch(pre, x, y, post, down, leads),
                        i |-> 1, currentHead |-> 0, currentBase |-> 0,
                        headLines |-> << >>, baseLines |-> << >>,
                        baseContent |-> base,
                        headContent |-> pre \o y \o x \o post,
                        inserted |-> IF down THEN (a + (c - b) + 1)..c
                                     ELSE (a + 1)..(a + (c - b))]

\* lines 511-520, once getChangedLineNumbers has returned: the blocks are
\* expanded and generateContextDiff is called; an exception of the
\* expansion is caught at line 534
MoveExpand ==
  /\ calc.fn = "getChangedLineNumbers"
  /\ calc.i > Len(calc.lines)
  /\ LET expandedHead == expandLineNumbersToBlock(
                            PlainContent(calc.headContent), calc.headLines)
         expandedBase == expandLineNumbersToBlock(
                            PlainContent(calc.baseContent), calc.baseLines)
         toSet(s) == { s[k] : k \in 1..Len(s) }
         locals == [baseContent |-> calc.baseContent,
                    headContent |-> calc.headContent,
                    inserted |-> calc.inserted,
                    baseLinesNums |-> toSet(expandedBase.lines),
                    headLinesNums |-> toSet(expandedHead.lines),
                    start |-> 0, end |-> 0,
                    baseSnippet |-> << >>, headSnippet |-> << >>,
                    result |-> << >>]
     IN calc' =
          IF expandedHead.threw \/ expandedBase.threw
          THEN locals @@ [fn |-> "generateContextDiff", stage |-> "returned",
                          error |-> "Processing error",
                          changedLines |-> << >>]
          ELSE locals @@ [fn |-> "generateContextDiff", stage |-> "called",
                          error |-> "", changedLines |-> calc.headLines]
  /\ UNCHANGED << reviewVars, call, limit, runs >>

NextMove ==
  \/ ScanHunkHeader
  \/ ScanAdded
  \/ ScanRemoved
  \/ ScanOther
  \/ MoveExpand
  \/ ContextDiffWindow
  \/ ContextDiffPatch

SpecMove == InitMove /\ [][NextMove]_vars


\* ------------------------------------ shouldPostInlineComment, 178-198
\* A comment is undefined or a string. A string is a sequence of
\* fragments, each a piece of text that is all lower-case or has upper-case
\* letters; the string is their concatenation. No phrase of the skip list
\* occurs in such a string other than as a run of whole fragments.
MaxFragments == 4

Fragment(s, up) == [s |-> s, up |-> up]

Fragments ==
  { Fragment(s, FALSE) : s \in {"no", " ", "issue", "s", "lgtm", "pia",
                                "rename"} }
  \cup { Fragment(s, TRUE) : s \in {"no", "issue", "lgtm"} }

Undefined == [defined |-> FALSE, text |-> << >>]
String(text) == [defined |-> TRUE, text |-> text]

\* the phrases of lines 181-196 that strings of these fragments can contain
skipPhraseList ==
  { << "no", " ", "issue", "s" >>, << "no", " ", "issue" >>, << "lgtm" >> }

toLowerCaseNoOp(c) == c

toLowerCase(c) == [k \in 1..Len(c) |-> Fragment(c[k].s, FALSE)]

\* c.includes(p): p occurs in c, letter case included
includes(c, p) ==
  \E i \in 0..(Len(c) - Len(p)) :
    \A k \in 1..Len(p) : c[i + k] = Fragment(p[k], FALSE)

InitFilter ==
  /\ files = << >>
  /\ initialComment = "none"
  /\ missingPrompts = {}
  /\ InitRun
  /\ faults = 0
  /\ call = [c \in 1..MaxCalls |-> IdleCall]
  /\ limit = IdleLimit
  /\ runs = << >>
  /\ \E comment \in {Undefined}
                     \cup { String(t) : t \in SeqsUpTo(Fragments, MaxFragments) } :
       calc = [fn |-> "shouldPostInlineComment", stage |-> "called",
               comment |-> comment, c |-> << >>, result |-> FALSE]

\* lines 179-180
FilterLower ==
  /\ calc.fn = "shouldPostInlineComment"
  /\ calc.stage = "called"
  /\ calc' = IF calc.comment = Undefined \/ calc.comment = String(<< >>)
             THEN [calc EXCEPT !.stage = "returned", !.result = FALSE]
             ELSE [calc EXCEPT !.stage = "lowered",
                               !.c = toLowerCase(calc.comment.text)]
  /\ UNCHANGED << reviewVars, call, limit, runs >>

\* line 197
FilterScan ==
  /\ calc.fn = "shouldPostInlineComment"
  /\ calc.stage = "lowered"
  /\ calc' = [calc EXCEPT
                !.stage = "returned",
                !.result = ~(\E p \in skipPhraseList : includes(calc.c, p))]
  /\ UNCHANGED << reviewVars, call, limit, runs >>

NextFilter == FilterLower \/ FilterScan

SpecFilter == InitFilter /\ [][NextFilter]_vars


\* --------------------------------------- processWhatCommand, 541-588
\* The run's comment calls, LLM call and position use the variables of the
\* review run; calc holds the options of the invocation.
AnalyzingBody == [kind |-> "analyzing", text |-> NoText, msg |-> ""]

SummaryBody(text) == [kind |-> "summary", text |-> text, msg |-> ""]

SummaryErrorBody(msg) == [kind |-> "error", text |-> NoText, msg |-> msg]

SummaryOutcomes ==
  { LlmOk(Text("summary", TRUE, FALSE)), LlmOk(Text("", FALSE, TRUE)),
    LlmOk(NoText) }
  \cup { LlmThrow(m) : m \in Messages }

\* the body of the update issued when the LLM call has settled, 573-582
WhatBodyOfAlwaysSummary(o) == SummaryBody(o.text)

WhatBodyOf(o) ==
  IF ~o.ok THEN SummaryErrorBody(o.msg)
  ELSE IF IsTruthy(o.text) THEN SummaryBody(o.text)
  ELSE SummaryErrorBody("No analysis returned")

\* what the run of processWhatCommand leaves alone
whatFrame == << files, initialComment, missingPrompts, transitions,
                filesToProcess, asmCalls, asmInFlight, fileInfos,
                managerPlan, managerFailed, fanVars, results, finalFailed,
                faults, call, calc, limit, runs >>

InitWhat ==
  /\ files \in SeqsUpTo({ReviewableFile}, MaxFiles)
  /\ initialComment = "none"
  /\ missingPrompts = {}
  /\ InitRun
  /\ faults = 0
  /\ call = [c \in 1..MaxCalls |-> IdleCall]
  /\ limit = IdleLimit
  /\ runs = << >>
  /\ \E returnSummary \in BOOLEAN :
       calc = [fn |-> "processWhatCommand", returnSummary |-> returnSummary]

\* the outer catch, lines 584-587
WhatCatch(cause) ==
  /\ escaped' = cause
  /\ createCalls' = Append(createCalls, SummaryErrorBody(cause))
  /\ pc' = "errposting"

\* line 552: octokit.pulls.get is called
WhatStart ==
  /\ calc.fn = "processWhatCommand"
  /\ pc = "start"
  /\ pc' = "diff"
  /\ UNCHANGED << reviewComment, prComments, createCalls, updateCalls,
                  commentFailed, finalSummary, escaped, llmCalls, whatFrame >>

\* lines 552-571: the diff has arrived, or not
WhatDiffDone ==
  /\ calc.fn = "processWhatCommand"
  /\ pc = "diff"
  /\ \E ok \in BOOLEAN :
       IF ~ok
       THEN WhatCatch("diff") /\ UNCHANGED llmCalls
       ELSE IF calc.returnSummary
       THEN /\ pc' = "summary"
            /\ llmCalls' = llmCalls + 1
            /\ UNCHANGED << createCalls, escaped >>
       ELSE /\ pc' = "creating"
            /\ createCalls' = Append(createCalls, AnalyzingBody)
            /\ UNCHANGED << llmCalls, escaped >>
  /\ UNCHANGED << reviewComment, prComments, updateCalls, commentFailed,
                  finalSummary, whatFrame >>

\* lines 562-569: returnSummary mode
WhatSummaryDone ==
  /\ calc.fn = "processWhatCommand"
  /\ pc = "summary"
  /\ \E o \in SummaryOutcomes :
       finalSummary' = [kind |-> "text", text |-> o.text, msg |-> ""]
  /\ pc' = "done"
  /\ UNCHANGED << reviewComment, prComments, createCalls, updateCalls,
                  commentFailed, escaped, llmCalls, whatFrame >>

\* lines 571-573
WhatCreateDone ==
  /\ calc.fn = "processWhatCommand"
  /\ pc = "creating"
  /\ \E ok \in BOOLEAN :
       IF ok
       THEN /\ prComments' = Append(prComments, AnalyzingBody)
            /\ reviewComment' = Len(prComments) + 1
            /\ llmCalls' = llmCalls + 1
            /\ pc' = "llm"
            /\ UNCHANGED << createCalls, commentFailed, escaped >>
       ELSE /\ commentFailed' = TRUE
            /\ WhatCatch("create")
            /\ UNCHANGED << prComments, reviewComment, llmCalls >>
  /\ UNCHANGED << updateCalls, finalSummary, whatFrame >>

\* lines 573-582: the LLM call has settled and an update is issued, from
\* the try block or, when the call threw, from the catch block
WhatLlmDone ==
  /\ calc.fn = "processWhatCommand"
  /\ pc = "llm"
  /\ \E o \in SummaryOutcomes :
       /\ finalSummary' = [kind |-> IF o.ok THEN "text" ELSE "threw",
                           text |-> o.text, msg |-> o.msg]
       /\ updateCalls' = Append(updateCalls, [id |-> reviewComment,
                                              body |-> WhatBodyOf(o)])
       /\ pc' = IF o.ok THEN "updating" ELSE "catchUpdating"
  /\ UNCHANGED << reviewComment, prComments, createCalls, commentFailed,
                  escaped, llmCalls, whatFrame >>

\* lines 575-582: an update issued in the try block has settled; its
\* rejection is caught at line 579 and a second update is issued
WhatUpdateDone ==
  /\ calc.fn = "processWhatCommand"
  /\ pc = "updating"
  /\ \E ok \in BOOLEAN :
       IF ok
       THEN /\ prComments' = [prComments EXCEPT ![reviewComment] =
                                 updateCalls[Len(updateCalls)].body]
            /\ pc' = "done"
            /\ UNCHANGED << updateCalls, commentFailed >>
       ELSE /\ commentFailed' = TRUE
            /\ updateCalls' = Append(updateCalls,
                 [id |-> reviewComment, body |-> SummaryErrorBody("update")])
            /\ pc' = "catchUpdating"
            /\ UNCHANGED prComments
  /\ UNCHANGED << reviewComment, createCalls, finalSummary, escaped,
                  llmCalls, whatFrame >>

\* line 581: the update issued in the catch block has settled
WhatCatchUpdateDone ==
  /\ calc.fn = "processWhatCommand"
  /\ pc = "catchUpdating"
  /\ \E ok \in BOOLEAN :
       IF ok
       THEN /\ prComments' = [prComments EXCEPT ![reviewComment] =
                                 updateCalls[Len(updateCalls)].body]
            /\ pc' = "done"
            /\ UNCHANGED << createCalls, commentFailed, escaped >>
       ELSE /\ commentFailed' = TRUE
            /\ WhatCatch("update")
            /\ UNCHANGED prComments
  /\ UNCHANGED << reviewComment, updateCalls, finalSummary, llmCalls,
                  whatFrame >>

\* line 586: a rejection here rejects processWhatCommand itself
WhatErrPostDone ==
  /\ calc.fn = "processWhatCommand"
  /\ pc = "errposting"
  /\ \E ok \in BOOLEAN :
       IF ok
       THEN /\ prComments' = Append(prComments,
                                    createCalls[Len(createCalls)])
            /\ pc' = "done"
            /\ UNCHANGED commentFailed
       ELSE /\ commentFailed' = TRUE
            /\ pc' = "rejected"
            /\ UNCHANGED prComments
  /\ UNCHANGED << reviewComment, createCalls, updateCalls, finalSummary,
                  escaped, llmCalls, whatFrame >>

NextWhat ==
  \/ WhatStart
  \/ WhatDiffDone
  \/ WhatSummaryDone
  \/ WhatCreateDone
  \/ WhatLlmDone
  \/ WhatUpdateDone
  \/ WhatCatchUpdateDone
  \/ WhatErrPostDone

SpecWhat == InitWhat /\ [][NextWhat]_vars


\* ------------------------- the fan-out over assembled files, 634-760
\* The run from the manager call on, for files with up to MaxFileChanged
\* changed lines in all: the state in which the assembly loop has ended and
\* the manager call has been issued.
MaxFanFiles == 1
MaxFileChanged == 4

FileChangedLists ==
  { SubSeq(AllChangedLines, 1, n) :
      n \in 0..Min(MaxFileChanged, Len(AllChangedLines)) }

AssembledInfos ==
  UNION { { [p \in 1..n |-> FileInfoEntry(p, o[p])] :
              o \in [1..n -> { [kind |-> "error", changedLines |-> << >>] }
                             \cup { [kind |-> "ok", changedLines |-> cl] :
                                      cl \in FileChangedLists }] } :
          n \in 1..MaxFanFiles }

InitFanout ==
  /\ \E infos \in AssembledInfos :
       /\ ChangedSoFar(infos) <= MaxFileChanged
       /\ fileInfos = infos
       /\ files = [p \in 1..Len(infos) |-> ReviewableFile]
       /\ filesToProcess = [p \in 1..Len(infos) |-> p]
       /\ asmCalls = [p \in 1..Len(infos) |-> p]
       /\ faults = Cardinality({ p \in 1..Len(infos) :
                                   infos[p].status # "ok" })
  /\ faults <= MaxFaults
  /\ initialComment = "supplied"
  /\ missingPrompts = {}
  /\ pc = "manager"
  /\ reviewComment = CallerCommentId
  /\ prComments = << StartingBody >>
  /\ createCalls = << >>
  /\ updateCalls = << >>
  /\ commentFailed = FALSE
  /\ transitions = 0
  /\ asmInFlight = {}
  /\ managerPlan = NoText
  /\ managerFailed = FALSE
  /\ task = << >>
  /\ queue = << >>
  /\ activeCount = 0
  /\ postedLineAnalyses = {}
  /\ referencedLines = << >>
  /\ reviewCommentCalls = [c \in CommentCores |-> 0]
  /\ suppressed = {}
  /\ failedPosts = {}
  /\ lineCalls = << >>
  /\ postCalls = << >>
  /\ results = << >>
  /\ finalSummary = NoSummary
  /\ finalFailed = FALSE
  /\ escaped = "none"
  /\ llmCalls = 1
  /\ call = [c \in 1..MaxCalls |-> IdleCall]
  /\ InitLib

NextFanout ==
  \/ ManagerDone
  \/ \E i \in 1..Len(task) : TaskReviewerDone(i)
  \/ \E i \in 1..Len(task) : TaskLineDone(i)
  \/ \E i \in 1..Len(task) : TaskMergeDone(i)
  \/ \E i \in 1..Len(task) : TaskPostDone(i)
  \/ FanoutJoin
  \/ FinalDone
  \/ UpdateDone
  \/ ErrPostDone

SpecFanout == InitFanout /\ [][NextFanout]_vars


\* ------------------------------ getChangedLineNumbers over two hunks
\* Patches without context lines ("diff -U0") with two hunks one after the
\* other: the first replaces some lines of the base by one line, the
\* second, after a gap of unchanged lines, replaces one line by one line.
\* The hunk headers are the ones diff writes for these changes.
MaxRemoved == 3
MaxGap == 2

TwoHunkPatch(start, leads, gap) ==
  LET r == Len(leads)
  IN << PatchLine("hunk", "", start, start) >>
     \o [k \in 1..r |-> PatchLine("removed", leads[k], 0, 0)]
     \o << PatchLine("added", "", 0, 0),
           PatchLine("hunk", "", start + r + gap, start + 1 + gap),
           PatchLine("removed", "", 0, 0),
           PatchLine("added", "", 0, 0) >>

InitHunks ==
  /\ files = << >>
  /\ initialComment = "none"
  /\ missingPrompts = {}
  /\ InitRun
  /\ faults = 0
  /\ call = [c \in 1..MaxCalls |-> IdleCall]
  /\ limit = IdleLimit
  /\ runs = << >>
  /\ \E start \in 1..2, gap \in 1..MaxGap,
        leads \in SeqsUpTo(LineLeads, MaxRemoved) :
       calc = [fn |-> "getChangedLineNumbers",
               lines |-> TwoHunkPatch(start, leads, gap), i |-> 1,
               currentHead |-> 0, currentBase |-> 0,
               headLines |-> << >>, baseLines |-> << >>]

NextHunks == ScanHunkHeader \/ ScanAdded \/ ScanRemoved \/ ScanOther

SpecHunks == InitHunks /\ [][NextHunks]_vars


\* --------------------------- the diff text of processFileDiff, 492-523
\* A diff is the sequence of its characters. MAX_DIFF_LENGTH is read from
\* the environment at line 51.
MAX_DIFF_LENGTH == 3
MaxPatchChars == 5

DiffTruncationMarker ==
  << "\n", "[", ".", ".", ".", "t", "r", "u", "n", "c", "a", "t", "e", "d",
     ".", ".", ".", "]" >>

\* the texts of file.patch and of createTwoFilesPatch: after a line break
\* a line of a unified diff starts with "+", "-", " ", "\" or "@"
DiffTexts == SeqsUpTo({"+", "\n"}, MaxPatchChars)

\* lines 494, 504 and 521-523
truncateDiffKeepsAll(diff) == diff

truncateDiff(diff) ==
  IF Len(diff) > MAX_DIFF_LENGTH
  THEN SubSeq(diff, 1, MAX_DIFF_LENGTH) \o DiffTruncationMarker
  ELSE diff

InitDiffText ==
  /\ files = << >>
  /\ initialComment = "none"
  /\ missingPrompts = {}
  /\ InitRun
  /\ faults = 0
  /\ call = [c \in 1..MaxCalls |-> IdleCall]
  /\ limit = IdleLimit
  /\ runs = << >>
  /\ \E status \in {"added", "removed", "modified", "renamed", "copied"},
        patch \in DiffTexts :
       calc = [fn |-> "processFileDiff.diff", stage |-> "called",
               status |-> status, patch |-> patch,
               untruncated |-> << >>, diff |-> << >>, error |-> ""]

\* lines 492-509: fileInfo.diff of an added or removed file; a file of
\* another status keeps the initial ''
PatchDiffBuild ==
  /\ calc.fn = "processFileDiff.diff"
  /\ calc.stage = "called"
  /\ calc.status \notin {"modified", "renamed"}
  /\ calc' = IF calc.status \in {"added", "removed"}
             THEN [calc EXCEPT !.stage = "returned",
                               !.untruncated = calc.patch,
                               !.diff = truncateDiff(calc.patch)]
             ELSE [calc EXCEPT !.stage = "returned"]
  /\ UNCHANGED << reviewVars, call, limit, runs >>

\* lines 510-523: fileInfo.diff of a modified or renamed file is cut from
\* what generateContextDiff returns; an exception before line 520 leaves ''
ContextDiffBuild ==
  /\ calc.fn = "processFileDiff.diff"
  /\ calc.stage = "called"
  /\ calc.status \in {"modified", "renamed"}
  /\ \/ \E generated \in DiffTexts :
          calc' = [calc EXCEPT !.stage = "returned",
                               !.untruncated = generated,
                               !.diff = truncateDiff(generated)]
     \/ calc' = [calc EXCEPT !.stage = "returned",
                             !.error = "Processing error"]
  /\ UNCHANGED << reviewVars, call, limit, runs >>

NextDiffText == PatchDiffBuild \/ ContextDiffBuild

SpecDiffText == InitDiffText /\ [][NextDiffText]_vars


\* ------------------------ the context text of processFileDiff, 493-530
\* The context is measured by the characters it takes over from the file
\* contents and from the PR description; the headings, markers and line
\* prefixes the code puts around them are left out. MAX_FILE_SIZE is
\* read from the environment at line 50.
MAX_FILE_SIZE == 2
MaxFileSize == 3
MaxBodyLength == 5

\* getFileContent, lines 236-268: the characters of the file it returns
\* (a file over MAX_FILE_SIZE is cut, a placeholder holds none)
fileChars(answer) ==
  IF answer.kind = "file" THEN Min(answer.size, MAX_FILE_SIZE) ELSE 0

SizeAnswers ==
  { [kind |-> "file", size |-> s] : s \in 0..MaxFileSize }
  \cup { [kind |-> "notfound", size |-> 0] }

\* line 530: pr.body, when there is one, is appended with every line quoted
withDescription(context, bodyLength) ==
  [context EXCEPT !.body = bodyLength]

InitContextSize ==
  /\ files = << >>
  /\ initialComment = "none"
  /\ missingPrompts = {}
  /\ InitRun
  /\ faults = 0
  /\ call = [c \in 1..MaxCalls |-> IdleCall]
  /\ limit = IdleLimit
  /\ runs = << >>
  /\ \E status \in {"added", "removed", "modified", "renamed"},
        bodyLength \in 0..MaxBodyLength :
       calc = [fn |-> "processFileDiff.context", stage |-> "called",
               status |-> status, bodyLength |-> bodyLength,
               baseChars |-> 0, context |-> [file |-> 0, body |-> 0]]

\* lines 495-496 and 505-506, then line 530
WholeFileContext ==
  /\ calc.fn = "processFileDiff.context"
  /\ calc.stage = "called"
  /\ calc.status \in {"added", "removed"}
  /\ \E answer \in SizeAnswers :
       calc' = [calc EXCEPT
         !.stage = "returned",
         !.context = withDescription([file |-> fileChars(answer), body |-> 0],
                                     calc.bodyLength)]
  /\ UNCHANGED << reviewVars, call, limit, runs >>

\* line 512
BaseSizeSettle ==
  /\ calc.fn = "processFileDiff.context"
  /\ calc.stage = "called"
  /\ calc.status \in {"modified", "renamed"}
  /\ \E answer \in SizeAnswers :
       calc' = [calc EXCEPT !.stage = "headContent",
                            !.baseChars = fileChars(answer)]
  /\ UNCHANGED << reviewVars, call, limit, runs >>

\* lines 513-517, then line 530: getSurroundingLines renders each line of
\* a content at most once, so it takes over at most the characters of it
SurroundingContext ==
  /\ calc.fn = "processFileDiff.context"
  /\ calc.stage = "headContent"
  /\ \E answer \in SizeAnswers :
       \E b \in 0..calc.baseChars, h \in 0..fileChars(answer) :
         calc' = [calc EXCEPT
           !.stage = "returned",
           !.context = withDescription([file |-> b + h, body |-> 0],
                                       calc.bodyLength)]
  /\ UNCHANGED << reviewVars, call, limit, runs >>

NextContextSize == WholeFileContext \/ BaseSizeSettle \/ SurroundingContext

SpecContextSize == InitContextSize /\ [][NextContextSize]_vars


\* -------------------------------------- getSurroundingLines, 154-176
\* What the function returns: the numbered lines, and a line '...' pushed
\* before a numbered line that does not follow the one rendered before it
\* (line 167).
MaxTargets == 2
MaxRadius == 2

GapMarker == [lineNum |-> 0, lineContent |-> ContentLine("...", 0),
              changed |-> FALSE]

RECURSIVE withGapMarkersEverywhere(_, _)
withGapMarkersEverywhere(rows, k) ==
  IF k > Len(rows) THEN << >>
  ELSE (IF k > 1 THEN << GapMarker >> ELSE << >>)
       \o << rows[k] >> \o withGapMarkersEverywhere(rows, k + 1)

RECURSIVE withGapMarkers(_, _)
withGapMarkers(rows, k) ==
  IF k > Len(rows) THEN << >>
  ELSE (IF k > 1 /\ rows[k].lineNum > rows[k - 1].lineNum + 1
        THEN << GapMarker >> ELSE << >>)
       \o << rows[k] >> \o withGapMarkers(rows, k + 1)

InitSurrounding ==
  /\ files = << >>
  /\ initialComment = "none"
  /\ missingPrompts = {}
  /\ InitRun
  /\ faults = 0
  /\ call = [c \in 1..MaxCalls |-> IdleCall]
  /\ limit = IdleLimit
  /\ runs = << >>
  /\ \E content \in {FlatText, FlatSwitch, LongSwitch},
        contextLines \in 0..MaxRadius :
       \E targets \in { t \in SUBSET (1..(Len(content) + 1)) :
                          Cardinality(t) <= MaxTargets } :
         calc = [fn |-> "getSurroundingLines", stage |-> "called",
                 content |-> content, lineNumbers |-> SortedSeq(targets),
                 contextLines |-> contextLines, result |-> << >>]

SurroundingLines ==
  /\ calc.fn = "getSurroundingLines"
  /\ calc.stage = "called"
  /\ calc' = [calc EXCEPT
       !.stage = "returned",
       !.result = withGapMarkers(getSurroundingLines(calc.content,
                    calc.lineNumbers, calc.contextLines), 1)]
  /\ UNCHANGED << reviewVars, call, limit, runs >>

NextSurrounding == SurroundingLines

SpecSurrounding == InitSurrounding /\ [][NextSurrounding]_vars


\* ------------------------------------ the fan-out over sibling files
\* Two assembled files, each with up to two changed lines, reviewed with
\* all prompt templates present or with one of them missing; the state is
\* again the one in which the manager call has been issued.
MaxSiblingChanged == 2

InitSiblings ==
  /\ \E cls \in [1..2 -> { SubSeq(AllChangedLines, 1, n) :
                            n \in 0..MaxSiblingChanged }] :
       /\ fileInfos = [p \in 1..2 |->
                         FileInfoEntry(p, [kind |-> "ok",
                                           changedLines |-> cls[p]])]
       /\ files = [p \in 1..2 |-> ReviewableFile]
       /\ filesToProcess = [p \in 1..2 |-> p]
       /\ asmCalls = [p \in 1..2 |-> p]
  /\ missingPrompts \in { {}, {"line"}, {"merge"} }
  /\ faults = Cardinality(missingPrompts)
  /\ initialComment = "supplied"
  /\ pc = "manager"
  /\ reviewComment = CallerCommentId
  /\ prComments = << StartingBody >>
  /\ createCalls = << >>
  /\ updateCalls = << >>
  /\ commentFailed = FALSE
  /\ transitions = 0
  /\ asmInFlight = {}
  /\ managerPlan = NoText
  /\ managerFailed = FALSE
  /\ task = << >>
  /\ queue = << >>
  /\ activeCount = 0
  /\ postedLineAnalyses = {}
  /\ referencedLines = << >>
  /\ reviewCommentCalls = [c \in CommentCores |-> 0]
  /\ suppressed = {}
  /\ failedPosts = {}
  /\ lineCalls = << >>
  /\ postCalls = << >>
  /\ results = << >>
  /\ finalSummary = NoSummary
  /\ finalFailed = FALSE
  /\ escaped = "none"
  /\ llmCalls = 1
  /\ call = [c \in 1..MaxCalls |-> IdleCall]
  /\ InitLib

SpecSiblings == InitSiblings /\ [][NextFanout]_vars

\* ============================================================ properties
Carries(kind) == \E id \in 1..Len(prComments) : prComments[id].kind = kind

ErrorUpdates == SelectSeq(updateCalls, LAMBDA u : u.body = ErrorBody)
ErrorCreates == SelectSeq(createCalls, LAMBDA b : b = ErrorBody)

InFlight == { i \in 1..Len(task) : task[i].pc \in RunningPcs }

C2_UpdateOnceOnInitialComment ==
  ~commentFailed =>
    /\ Len(updateCalls) <= 1
    /\ pc = "done" =>
         /\ Len(updateCalls) = 1
         /\ Len(prComments) = 1
         /\ updateCalls[1].id = 1
         /\ IF initialComment # "none"
            THEN createCalls = << >> /\ updateCalls[1].id = CallerCommentId
            ELSE createCalls = << StartingBody >>

C2_Witness ==
  /\ pc = "done"
  /\ ~commentFailed
  /\ initialComment = "none"
  /\ Len(updateCalls) = 1
  /\ prComments[1].kind = "review"

\* C3: an exception escaping a stage reaches the outer catch once: exactly
\* one error-body call is made, an update of the initial comment when there
\* is one and a new comment otherwise, the comment carries the error body
\* when that call succeeds, and processReviewCommand never rejects.
C3_EscapeSurfacedOnce ==
  /\ pc # "rejected"
  /\ escaped = "none" => ErrorUpdates = << >> /\ ErrorCreates = << >>
  /\ escaped # "none" =>
       /\ pc \in {"errposting", "done"}
       /\ IF reviewComment # 0
          THEN /\ Len(ErrorUpdates) = 1
               /\ ErrorUpdates[1].id = reviewComment
               /\ ErrorCreates = << >>
               /\ (pc = "done" /\ transitions = 1) =>
                     prComments[reviewComment] = ErrorBody
          ELSE /\ ErrorUpdates = << >>
               /\ Len(ErrorCreates) = 1
               /\ (pc = "done" /\ transitions = 1) =>
                     prComments = << ErrorBody >>

C3_Witness ==
  /\ pc = "done"
  /\ escaped = "prompt"
  /\ \E i \in 1..Len(task) : task[i].pc = "thrown"
  /\ prComments[reviewComment] = ErrorBody

\* C4, as claimed: a call still pending when its timer fires is aborted: it
\* neither returns a text nor fails with another error afterwards.
C4_CallAbortedAtTimeout ==
  \A c \in 1..MaxCalls :
    call[c].timer = "fired" => call[c].state \in {"pending", "timedout"}

\* C5: the number of file-review tasks started and not yet settled never
\* exceeds CONCURRENCY_LIMIT.
C5_InFlightBounded == Cardinality(InFlight) <= CONCURRENCY_LIMIT

C5_Witness ==
  /\ Cardinality(InFlight) = CONCURRENCY_LIMIT
  /\ queue # << >>

\* C6: at most one processFileDiff call is in flight, the calls are made in
\* the order of filesToProcess, each after the previous one has completed,
\* and no LLM call is issued before the last one has completed.
C6_AssemblySequential ==
  /\ Cardinality(asmInFlight) <= 1
  /\ asmCalls = [k \in 1..Len(asmCalls) |-> k]
  /\ Len(asmCalls) = Len(fileInfos) + Cardinality(asmInFlight)
  /\ \A p \in asmInFlight : p = Len(fileInfos) + 1
  /\ llmCalls > 0 =>
       asmInFlight = {} /\ Len(fileInfos) = Len(filesToProcess)

C6_Witness ==
  /\ Len(fileInfos) = 1
  /\ asmInFlight = {2}
  /\ Len(filesToProcess) = 3
  /\ llmCalls = 0

\* C7: processFileDiff is called exactly once, in input order, for each of
\* the first MAX_FILES_TO_PROCESS files that are neither removed nor binary,
\* and for no other file.
Reviewable(f) == f.status # "removed" /\ f.ext \notin BinaryExtensions

ExpectedAssembled(fs) ==
  { i \in 1..Len(fs) :
      /\ Reviewable(fs[i])
      /\ Cardinality({ j \in 1..(i - 1) : Reviewable(fs[j]) })
           < MAX_FILES_TO_PROCESS }

AssembledFiles == [k \in 1..Len(asmCalls) |-> filesToProcess[asmCalls[k]]]

C7_AssemblesFilteredFiles ==
  LET expected == SortedSeq(ExpectedAssembled(files))
  IN /\ Len(AssembledFiles) <= Len(expected)
     /\ \A k \in 1..Len(AssembledFiles) : AssembledFiles[k] = expected[k]
     /\ (pc \notin {"start", "creating", "commits", "assembling"}
           /\ escaped # "create") => AssembledFiles = expected

C7_Witness ==
  /\ pc = "manager"
  /\ Len(asmCalls) = MAX_FILES_TO_PROCESS
  /\ files[1].status = "removed"
  /\ Len(fileInfos) = MAX_FILES_TO_PROCESS

\* C8: a file whose assembly returned an error or nothing, or whose reviewer
\* call failed or returned empty text, is one error entry of the results;
\* every other file is reviewed and reported, and the terminal comment is
\* the review body unless a prompt or a comment call failed.
FileFailed(i) ==
  fileInfos[i].status = "error" \/ ~IsTruthy(results[i].analysis)

C8_PerFileErrorsContained ==
  /\ results # << >> =>
       /\ Len(results) = Len(filesToProcess)
       /\ \A i \in 1..Len(results) :
            results[i].status = IF FileFailed(i) THEN "error" ELSE "reviewed"
  /\ (pc = "done" /\ missingPrompts = {} /\ ~commentFailed) =>
       /\ prComments[reviewComment].kind = "review"
       /\ prComments[reviewComment].errors =
            { i \in 1..Len(filesToProcess) : FileFailed(i) }

C8_Witness ==
  /\ pc = "done"
  /\ Len(results) = 3
  /\ FileFailed(1)
  /\ results[2].status = "reviewed"
  /\ results[3].status = "reviewed"
  /\ prComments[reviewComment].kind = "review"
  /\ prComments[reviewComment].errors = {1}

\* C9: a failed manager call leaves the plan empty, a failed final call
\* leaves a placeholder summary embedding the error message, and the run
\* still ends with the review body.
C9_StageFailuresDegrade ==
  /\ managerFailed => managerPlan = NoText
  /\ finalFailed =>
       /\ finalSummary.kind = "placeholder"
       /\ finalSummary.msg \in Messages
  /\ (pc = "done" /\ missingPrompts = {} /\ ~commentFailed) =>
       /\ prComments[reviewComment].kind = "review"
       /\ prComments[reviewComment].summary = finalSummary

C9_Witness ==
  /\ pc = "done"
  /\ finalFailed
  /\ prComments[reviewComment].kind = "review"
  /\ prComments[reviewComment].summary.kind = "placeholder"
  /\ prComments[reviewComment].summary.msg = "boom"

\* C10: createReviewComment is never called twice with comments of equal
\* normalized (trimmed, lower-cased) text.
C10_NoDuplicateInlineComment ==
  \A c \in CommentCores : reviewCommentCalls[c] <= 1

C10_Witness ==
  /\ reviewCommentCalls["fix"] = 1
  /\ "fix" \in suppressed
  /\ Cardinality(InFlight) = 2

\* C11: no inline comment is posted for a merged finding whose trimmed
\* text is empty or holds, in any letter case, one of the skip phrases: the
\* texts handed to createReviewComment all pass the comment filter.
C11_OnlyFilteredFindingsPosted ==
  /\ reviewCommentCalls[""] = 0
  /\ \A p \in skipPhrases \cap CommentCores : reviewCommentCalls[p] = 0
  /\ \A k \in postedLineAnalyses : k.core # "" /\ k.core \notin skipPhrases
  /\ \A i \in 1..Len(task) :
       task[i].pc = "post" =>
         LET c == Trim(task[i].groups[task[i].gIdx].comment)
         IN c.core # "" /\ c.core \notin skipPhrases

C11_Witness ==
  \E i \in 1..Len(task) :
    /\ task[i].pc = "post"
    /\ task[i].gIdx = 2
    /\ task[i].groups[1].comment = Text("lgtm", TRUE, FALSE)
    /\ reviewCommentCalls["fix"] = 1

\* C12: a rejected createReviewComment call is not repeated and does not
\* abort anything: the task goes on, its file keeps the status of its
\* file-level review, and the terminal update carries the review body.
C12_PostFailureContained ==
  /\ \A f \in failedPosts :
       /\ reviewCommentCalls[f.key] = 1
       /\ task[f.file].pc # "thrown"
       /\ results # << >> => results[f.file].status = "reviewed"
  /\ (failedPosts # {} /\ escaped # "none") =>
       (missingPrompts # {} \/ commentFailed)
  /\ (pc = "done" /\ failedPosts # {} /\ missingPrompts = {}
        /\ ~commentFailed) =>
       prComments[reviewComment].kind = "review"

C12_Witness ==
  /\ pc = "done"
  /\ failedPosts = { [file |-> 1, key |-> "rename"] }
  /\ referencedLines # << >>
  /\ referencedLines[1].file = 1
  /\ results[1].status = "reviewed"
  /\ prComments[reviewComment].kind = "review"

\* C13: mergeSimilarLineAnalyses returns the empty list for no finding and
\* the identity merge (one group per finding, in order, comment unchanged)
\* for one finding, for a failed merge call, for a response whose parsing
\* throws and for a response that yields no group; the call and the parsing
\* never make it throw.
IsIdentityMerge(la, groups) ==
  /\ Len(groups) = Len(la)
  /\ \A k \in 1..Len(la) :
       groups[k] = [lines |-> << la[k].line >>, comment |-> la[k].comment]

YieldsNoGroup(sections) ==
  \A k \in 1..Len(sections) :
    ~(/\ sections[k].match
      /\ Len(sections[k].lines) > 0
      /\ sections[k].comment.core # "")

C14_RunsScheduleIndependently ==
  \A r \in 1..Len(runs) :
    (\E i \in 1..Len(runs[r]) : runs[r][i] = "queued") =>
      Cardinality({ i \in 1..Len(runs[r]) : runs[r][i] = "running" })
        = CONCURRENCY_LIMIT

\* C15, as claimed: for a patch with k added and m removed lines,
\* getChangedLineNumbers returns k head lines and m base lines, whatever
\* the text of the lines.
ScanDone == calc.fn = "getChangedLineNumbers" /\ calc.i > Len(calc.lines)

LinesOfKind(kind) ==
  { j \in 1..Len(calc.lines) : calc.lines[j].kind = kind }

C15_CountsMatchPatch ==
  ScanDone =>
    /\ Len(calc.headLines) = Cardinality(LinesOfKind("added"))
    /\ Len(calc.baseLines) = Cardinality(LinesOfKind("removed"))

\* C16, as claimed: each added line is recorded with the head start of its
\* hunk plus the context and added lines before it in the hunk, each removed
\* line with the base start plus the context and removed lines before it.
HunkOf(j) ==
  CHOOSE h \in LinesOfKind("hunk") :
    h < j /\ \A g \in LinesOfKind("hunk") : g < j => g <= h

ExpectedNumber(j, own) ==
  LET h == HunkOf(j)
      start == IF own = "added" THEN calc.lines[h].c ELSE calc.lines[h].a
  IN start + Cardinality({ k \in (h + 1)..(j - 1) :
                             calc.lines[k].kind \in {"context", own} })

ExpectedNumbers(own) ==
  LET at == SortedSeq(LinesOfKind(own))
  IN [n \in 1..Len(at) |-> ExpectedNumber(at[n], own)]

C16_NumbersFollowHunk ==
  ScanDone =>
    /\ calc.headLines = ExpectedNumbers("added")
    /\ calc.baseLines = ExpectedNumbers("removed")

\* C17, as claimed: for a single changed line strictly inside a switch
\* statement, the result holds every line from the line with the switch
\* keyword to the line with its closing brace.
ExpandDone == calc.fn = "expandLineNumbersToBlock" /\ calc.stage = "returned"

ResultSet == { calc.result[k] : k \in 1..Len(calc.result) }

RECURSIVE Depth(_, _, _)
Depth(content, from, to) ==
  IF to < from THEN 0
  ELSE Depth(content, from, to - 1) + Opens(content[to]) - Closes(content[to])

\* j closes the block that line s opens
ClosesBlock(content, s, j) ==
  /\ j > s
  /\ Depth(content, s, j) = 0
  /\ \A m \in s..(j - 1) : Depth(content, s, m) > 0

C17_SwitchFullyExpanded ==
  (ExpandDone /\ Len(calc.lineNumbers) = 1) =>
    \A s, j \in 1..Len(calc.content) :
      (/\ calc.content[s].text = "switch (x) {"
       /\ ClosesBlock(calc.content, s, j)
       /\ s < calc.lineNumbers[1]
       /\ calc.lineNumbers[1] < j
       /\ \A t \in (s + 1)..(calc.lineNumbers[1]) :
            calc.content[t].text # "switch (x) {") =>
        (s..j) \subseteq ResultSet

\* C18, as claimed: for changed lines forming two runs, the two expanded
\* ranges have no line in common.
PickedSet == { calc.lineNumbers[k] : k \in 1..Len(calc.lineNumbers) }

\* the changed lines are the runs a..b and c..d, with a gap between them
TwoRuns(a, b, c, d) ==
  /\ a <= b /\ b + 1 < c /\ c <= d
  /\ PickedSet = (a..b) \cup (c..d)

SpanOfRun(a, b) ==
  LET x == expandRange(calc.content, a, b)
  IN x[1]..x[2]

C18_ExpandedRangesDisjoint ==
  ExpandDone =>
    \A a, b, c, d \in PickedSet :
      TwoRuns(a, b, c, d) => SpanOfRun(a, b) \cap SpanOfRun(c, d) = {}

\* C18, amended: the result is the ascending, duplicate-free union of the
\* ranges obtained by expanding each run on its own, whether or not the
\* ranges overlap.
C18_UnionOfIndependentRanges ==
  ExpandDone =>
    \A a, b, c, d \in PickedSet :
      TwoRuns(a, b, c, d) =>
        /\ ResultSet = SpanOfRun(a, b) \cup SpanOfRun(c, d)
        /\ \A k \in 1..(Len(calc.result) - 1) :
             calc.result[k] < calc.result[k + 1]

C18_Witness ==
  /\ ExpandDone
  /\ calc.lineNumbers = << 2, 4 >>
  /\ TwoRuns(2, 2, 4, 4)
  /\ SpanOfRun(2, 2) = 1..5
  /\ SpanOfRun(4, 4) = 1..5
  /\ calc.result = << 1, 2, 3, 4, 5 >>

\* C19, as claimed: when generateContextDiff has diffed a window starting
\* at offset start, each hunk header of its output carries the start
\* numbers of the window's patch plus start, and the lengths of that patch.
WindowDiffDone ==
  /\ calc.fn = "generateContextDiff"
  /\ calc.stage = "returned"
  /\ calc.baseLinesNums \cup calc.headLinesNums # {}

WindowPatch ==
  createTwoFilesPatch(calc.baseSnippet, calc.headSnippet, CONTEXT_LINES)

C19_HeadersCarryFileLineNumbers ==
  WindowDiffDone =>
    /\ Len(calc.result) = Len(WindowPatch)
    /\ \A n \in 1..Len(calc.result) :
         /\ calc.result[n].oldStart = WindowPatch[n].oldStart + calc.start
         /\ calc.result[n].newStart = WindowPatch[n].newStart + calc.start
         /\ calc.result[n].oldLines = WindowPatch[n].oldLines
         /\ calc.result[n].newLines = WindowPatch[n].newLines

\* C20, as claimed: the hunks of the window's patch, with start added to
\* their line numbers, have the start numbers and the removed and added
\* lines of the hunks of the patch of the two full files.
OffsetCorrected(h, offset) ==
  [oldStart |-> h.oldStart + offset,
   newStart |-> h.newStart + offset,
   removed |-> { x + offset : x \in h.removed },
   added |-> { x + offset : x \in h.added }]

FullPatch ==
  createTwoFilesPatch(calc.baseContent, calc.headContent, CONTEXT_LINES)

C20_WindowPatchMatchesFullPatch ==
  WindowDiffDone =>
    /\ Len(calc.result) = Len(FullPatch)
    /\ \A n \in 1..Len(calc.result) :
         OffsetCorrected(calc.result[n], calc.start)
           = OffsetCorrected(FullPatch[n], 0)

\* C22: a file with a binary extension, whatever its status, is returned
\* with the error 'Binary file - skipped' and nothing else was done for it:
\* no content or instructions fetch, empty diff, context and changedLines.
FileDiffReturned == calc.fn = "processFileDiff" /\ calc.stage = "returned"

C22_BinaryFileSkipped ==
  (FileDiffReturned /\ calc.file.ext \in BinaryExtensions) =>
    /\ calc.fileInfo.error = "Binary file - skipped"
    /\ calc.fetches = << >>
    /\ calc.fileInfo.diff = ""
    /\ calc.fileInfo.context = NoContext
    /\ calc.fileInfo.changedLines = << >>
    /\ calc.fileInfo.instructions = << >>

C22_Witness ==
  /\ FileDiffReturned
  /\ calc.file = [status |-> "removed", ext |-> "png"]
  /\ calc.ENABLE_REPO_INSTRUCTIONS
  /\ calc.headLines # << >>
  /\ calc.fileInfo.error = "Binary file - skipped"

\* C23, as claimed: when a fetch of the file's content failed or was
\* truncated, processFileDiff returns with no error and with a context
\* that shows the placeholder text, for every status and changed lines.
IsFileFetch(k) == calc.fetches[k].path = "file"

FetchDegraded(k) ==
  /\ IsFileFetch(k)
  /\ \/ calc.answers[k].kind \in {"notfound", "error"}
     \/ /\ calc.answers[k].kind = "file"
        /\ calc.answers[k].fits < Len(calc.answers[k].text)

Shows(context, content) ==
  \/ context.content = content
  \/ \E side \in {context.base, context.head} :
       \E k \in 1..Len(side) :
         side[k].lineContent = content[Len(content)]

C23_ContentFailureNotFatal ==
  FileDiffReturned =>
    \A k \in 1..Len(calc.answers) :
      FetchDegraded(k) =>
        /\ calc.fileInfo.error = ""
        /\ Shows(calc.fileInfo.context, calc.contents[k])

\* C24, as claimed: a directory listing answered by the content
\* collaborator makes getFileContent return the directory placeholder.
DirectoryPlaceholder ==
  << ContentLine("[Directory content not supported]", 0) >>

C24_DirectoryPlaceholderReturned ==
  calc.fn = "processFileDiff" =>
    \A k \in 1..Len(calc.answers) :
      calc.answers[k].kind = "directory" =>
        calc.contents[k] = DirectoryPlaceholder

\* C26, as claimed: the context of a modified or renamed file shows, with
\* its number, every line of the blocks expandLineNumbersToBlock returned
\* for the head and the base changed lines; when the changed head line is a
\* case label of a switch, it shows the whole switch, default included.
Rendered(side) == { side[k].lineNum : k \in 1..Len(side) }

BlockLines(expanded, content) ==
  { expanded[k] : k \in 1..Len(expanded) } \cap (1..Len(content))

ModifiedReturned ==
  /\ FileDiffReturned
  /\ calc.fileInfo.context.kind = "Modified File"

IsCaseLabel(l) == l.text \in {"case 1:", "case 2:"}

C26_BlocksRendered ==
  ModifiedReturned =>
    /\ BlockLines(calc.expandedHead, calc.fileInfo.headContent)
         \subseteq Rendered(calc.fileInfo.context.head)
    /\ BlockLines(calc.expandedBase, calc.baseContent)
         \subseteq Rendered(calc.fileInfo.context.base)

C26_ContextShowsWholeBlock ==
  ModifiedReturned =>
    /\ C26_BlocksRendered
    /\ LET head == calc.fileInfo.headContent
       IN (/\ head \in {FlatSwitch, LongSwitch}
           /\ Len(calc.headLines) = 1
           /\ calc.headLines[1] <= Len(head)
           /\ IsCaseLabel(head[calc.headLines[1]]))
          => Rendered(calc.fileInfo.context.head) = 1..Len(head)

\* C21, as claimed: for a file in which a block was moved, the changedLines
\* of processFileDiff are the head positions at which the patch adds the
\* moved lines, and when the window spans both whole files the diff is the
\* patch of the full base and head contents with 10 lines of context.
MoveDone ==
  /\ calc.fn = "generateContextDiff"
  /\ calc.stage = "returned"

WindowSpansFiles ==
  /\ calc.start = 0
  /\ calc.end + 1 >= Max(Len(calc.baseContent), Len(calc.headContent))

C21_MovedBlockReported ==
  MoveDone =>
    /\ calc.error = ""
    /\ { calc.changedLines[k] : k \in 1..Len(calc.changedLines) }
         = calc.inserted
    /\ WindowSpansFiles =>
         calc.result = createTwoFilesPatch(calc.baseContent,
                                           calc.headContent, CONTEXT_LINES)

\* C25: shouldPostInlineComment returns false exactly when the comment is
\* empty or undefined, or its text, letter case ignored, contains a phrase
\* of the skip list; it returns true for every other string.
FilterDone == calc.fn = "shouldPostInlineComment" /\ calc.stage = "returned"

ContainsIgnoringCase(comment, phrase) ==
  \E from \in 1..Len(comment) :
    /\ from + Len(phrase) - 1 <= Len(comment)
    /\ \A k \in 1..Len(phrase) : comment[from + k - 1].s = phrase[k]

C25_FilterRejectsExactlySkipPhrases ==
  FilterDone =>
    (calc.result = FALSE <=>
       \/ calc.comment \in {Undefined, String(<< >>)}
       \/ \E phrase \in skipPhraseList :
            ContainsIgnoringCase(calc.comment.text, phrase))

\* "No issues." is rejected, and so is "pia" + "NO issue" ("piaNO issue")
C25_Witness ==
  /\ FilterDone
  /\ calc.comment = String(<< Fragment("pia", FALSE), Fragment("no", TRUE),
                              Fragment(" ", FALSE),
                              Fragment("issue", FALSE) >>)
  /\ calc.result = FALSE

\* C27, as claimed: in default mode, once the diff has been retrieved, a
\* finished run has created exactly one 'Analyzing changes...' comment,
\* made exactly one LLM call and updated that comment exactly once, with
\* the summary when the LLM returned text and an error message otherwise.
WhatDefaultEnded ==
  /\ calc.fn = "processWhatCommand"
  /\ ~calc.returnSummary
  /\ pc \in {"done", "rejected"}
  /\ escaped # "diff"

AnalyzingCreates == SelectSeq(createCalls, LAMBDA b : b = AnalyzingBody)

LlmReturnedText == finalSummary.kind = "text" /\ IsTruthy(finalSummary.text)

FirstUpdateFollowsLlm ==
  /\ updateCalls[1].id = reviewComment
  /\ updateCalls[1].body.kind = IF LlmReturnedText THEN "summary" ELSE "error"
  /\ LlmReturnedText => updateCalls[1].body.text = finalSummary.text

C27_OneCommentOneCallOneUpdate ==
  WhatDefaultEnded =>
    /\ Len(AnalyzingCreates) = 1
    /\ reviewComment # 0
    /\ llmCalls = 1
    /\ Len(updateCalls) = 1
    /\ FirstUpdateFollowsLlm

\* C27, amended: exactly one 'Analyzing changes...' comment is requested;
\* when it is created exactly one LLM call is made and then an update of
\* that comment is issued, with the summary when the LLM returned text and
\* an error message otherwise; only when that update is rejected, one more
\* update of the same comment, with an error message, is issued.
C27_OneUpdateUnlessRejected ==
  WhatDefaultEnded =>
    /\ Len(AnalyzingCreates) = 1
    /\ createCalls[1] = AnalyzingBody
    /\ llmCalls = (IF reviewComment # 0 THEN 1 ELSE 0)
    /\ Len(updateCalls) \in (IF reviewComment = 0 THEN {0}
                             ELSE IF commentFailed /\ finalSummary.kind = "text"
                             THEN {2} ELSE {1})
    /\ reviewComment # 0 => FirstUpdateFollowsLlm
    /\ Len(updateCalls) = 2 =>
         /\ commentFailed
         /\ updateCalls[2].id = reviewComment
         /\ updateCalls[2].body.kind = "error"
    /\ ~commentFailed =>
         /\ Len(updateCalls) = 1
         /\ prComments = << updateCalls[1].body >>

C27_Witness ==
  /\ WhatDefaultEnded
  /\ pc = "done"
  /\ LlmReturnedText
  /\ Len(updateCalls) = 2
  /\ prComments[reviewComment].kind = "error"

\* C28: the line-level calls of a file are made for the first three of its
\* changed lines only, in their order, one at a time: a call is issued
\* only when the previous one of the file has settled, and whatever that
\* one came to (text, nothing, an exception) the next is issued.
LineCallsInOrder(i) ==
  /\ Len(lineCalls[i]) <= LINE_SAMPLE
  /\ Len(lineCalls[i]) <= Len(fileInfos[i].changedLines)
  /\ \A k \in 1..Len(lineCalls[i]) :
       lineCalls[i][k].line = fileInfos[i].changedLines[k]

LineCallsOneAtATime(i) ==
  \A k \in 1..Len(lineCalls[i]) :
    lineCalls[i][k].state = "pending" => k = Len(lineCalls[i])

LineCallsGoOn(i) ==
  \A k \in 1..Len(lineCalls[i]) :
    (/\ lineCalls[i][k].state # "pending"
     /\ k < LINE_SAMPLE
     /\ k < Len(fileInfos[i].changedLines))
    => Len(lineCalls[i]) > k

C28_LineCallsSampledSequential ==
  \A i \in 1..Len(lineCalls) :
    /\ LineCallsInOrder(i)
    /\ LineCallsOneAtATime(i)
    /\ LineCallsGoOn(i)

C28_Witness ==
  \E i \in 1..Len(lineCalls) :
    /\ Len(fileInfos[i].changedLines) > LINE_SAMPLE
    /\ task[i].pc = "done"
    /\ Len(lineCalls[i]) = LINE_SAMPLE
    /\ lineCalls[i][1].state = "threw"
    /\ lineCalls[i][LINE_SAMPLE].state = "text"

\* C29: every createReviewComment call is anchored at the first line of its
\* group; no call is made for a filtered finding or for a text already
\* posted; once the fan-out has finished referencedLines holds one
\* {file, lines} record for each call that succeeded and no other, and the
\* review body carries the links of exactly these records.
PostsAnchoredAtFirstLine ==
  \A k \in 1..Len(postCalls) : postCalls[k].line = postCalls[k].lines[1]

PostsOnlyForSurvivors ==
  \A k \in 1..Len(postCalls) :
    /\ postCalls[k].key \notin skipPhrases \cup {""}
    /\ \A j \in 1..Len(postCalls) : postCalls[j].key = postCalls[k].key => j = k

FanoutFinished ==
  /\ pc \in {"final", "updating", "done", "errposting"}
  /\ \A i \in 1..Len(task) : task[i].pc = "done"

Occurrences(seq, r) == Cardinality({ k \in 1..Len(seq) : seq[k] = r })

SucceededPosts ==
  LET ok == SelectSeq(postCalls, LAMBDA c : c.state = "ok")
  IN [k \in 1..Len(ok) |-> [file |-> ok[k].file, lines |-> ok[k].lines]]

C29_ReferencedLinesMatchPosts ==
  /\ PostsAnchoredAtFirstLine
  /\ PostsOnlyForSurvivors
  /\ FanoutFinished =>
       /\ Len(referencedLines) = Len(SucceededPosts)
       /\ \A k \in 1..Len(referencedLines) :
            Occurrences(referencedLines, referencedLines[k])
              = Occurrences(SucceededPosts, referencedLines[k])
  /\ \A u \in 1..Len(updateCalls) :
       updateCalls[u].body.kind = "review" =>
         updateCalls[u].body.refs = referencedLines

C29_Witness ==
  /\ pc = "done"
  /\ reviewComment # 0
  /\ prComments[reviewComment].kind = "review"
  /\ prComments[reviewComment].refs # << >>
  /\ \E k \in 1..Len(postCalls) :
       postCalls[k].state = "ok" /\ Len(postCalls[k].lines) > 1

\* C30: once the final call has been issued, the run has made one manager
\* call, one final call and, for each assembled file, one file-level call,
\* plus, when that returned text, one line-level call for each of its
\* first three changed lines, plus one merge call exactly when two or more
\* of these returned text. That is F + 2 calls when no file has changed
\* lines and never more than 2 + 5F.
FinalIssued == pc = "final" \/ finalSummary.kind # "unset"

AssembledOk == { i \in 1..Len(fileInfos) : fileInfos[i].status = "ok" }

TextLineCalls(i) ==
  Cardinality({ k \in 1..Len(lineCalls[i]) : lineCalls[i][k].state = "text" })

CallsOfFile(i) ==
  IF i \notin AssembledOk THEN 0
  ELSE 1 + (IF results[i].status = "reviewed"
            THEN Min(LINE_SAMPLE, Len(fileInfos[i].changedLines))
                   + (IF TextLineCalls(i) >= 2 THEN 1 ELSE 0)
            ELSE 0)

RECURSIVE SumCalls(_)
SumCalls(n) == IF n = 0 THEN 0 ELSE CallsOfFile(n) + SumCalls(n - 1)

RepeatsHunk ==
  \E j, k \in LinesOfKind("hunk") : j # k /\ calc.lines[j] = calc.lines[k]

Ascending(seq) ==
  /\ \A k \in 1..Len(seq) : seq[k] >= 1
  /\ \A k \in 1..(Len(seq) - 1) :
       /\ seq[k] <= seq[k + 1]
       /\ ~RepeatsHunk => seq[k] < seq[k + 1]

C31_NumbersAscend ==
  ScanDone => Ascending(calc.headLines) /\ Ascending(calc.baseLines)

\* the same statement on the patches whose lines of file text start
\* with neither "++" nor "--"
C31_PlainTextAscends ==
  (\A j \in 1..Len(calc.lines) : calc.lines[j].lead = "") => C31_NumbersAscend

\* C32: for a file text that is not empty and a list of changed line
\* numbers of that file that is not empty, the result of
\* expandLineNumbersToBlock is in ascending order without duplicates, holds
\* every input number and holds only numbers from 1 to the number of
\* lines of the file.
C32_ExpansionWellFormed ==
  (ExpandDone /\ Len(calc.lineNumbers) > 0) =>
    /\ \A k \in 1..(Len(calc.result) - 1) : calc.result[k] < calc.result[k + 1]
    /\ \A k \in 1..Len(calc.lineNumbers) : calc.lineNumbers[k] \in ResultSet
    /\ ResultSet \subseteq 1..Len(calc.content)

C32_Witness ==
  /\ ExpandDone
  /\ Len(calc.lineNumbers) = 2
  /\ calc.lineNumbers[2] > calc.lineNumbers[1] + 1
  /\ Len(calc.result) > 3
  /\ Len(calc.result) < Len(calc.content)

\* C33: whatever the status of the file, the diff of the FileReviewContext
\* has at most MAX_DIFF_LENGTH characters plus those of the truncation
\* marker, and it ends with the marker exactly when the diff before
\* truncation had more than MAX_DIFF_LENGTH characters.
DiffReturned == calc.fn = "processFileDiff.diff" /\ calc.stage = "returned"

EndsWith(text, suffix) ==
  /\ Len(text) >= Len(suffix)
  /\ SubSeq(text, Len(text) - Len(suffix) + 1, Len(text)) = suffix

C33_DiffBounded ==
  DiffReturned =>
    /\ Len(calc.diff) <= MAX_DIFF_LENGTH + Len(DiffTruncationMarker)
    /\ EndsWith(calc.diff, DiffTruncationMarker)
         <=> Len(calc.untruncated) > MAX_DIFF_LENGTH
    /\ Len(calc.untruncated) <= MAX_DIFF_LENGTH => calc.diff = calc.untruncated

C33_Witness ==
  /\ DiffReturned
  /\ calc.status = "modified"
  /\ Len(calc.untruncated) = MAX_DIFF_LENGTH + 1
  /\ Len(calc.diff) = MAX_DIFF_LENGTH + Len(DiffTruncationMarker)

\* C34, as claimed: the context of a FileReviewContext is bounded by the
\* configured limits, whatever the size of the file contents, the number
\* of changed lines and the length of the PR body; in the characters taken
\* over from the inputs the limits allow two file contents of
\* MAX_FILE_SIZE characters.
ContextReturned ==
  calc.fn = "processFileDiff.context" /\ calc.stage = "returned"

ContextBound == MAX_FILE_SIZE + MAX_FILE_SIZE

C34_ContextBounded ==
  ContextReturned => calc.context.file + calc.context.body <= ContextBound

\* the part of the statement that holds: the characters taken over from
\* the file contents are bounded
C34_FilePartBounded ==
  ContextReturned => calc.context.file <= ContextBound

\* C35: getSurroundingLines renders exactly the lines of the file that lie
\* within the radius of a target line, each once and in ascending order;
\* a rendered line carries the mark '> ' exactly when it is a target line;
\* a gap marker stands exactly between two rendered lines whose numbers are
\* not adjacent, never first and never last.
SurroundingDone == calc.fn = "getSurroundingLines" /\ calc.stage = "returned"

TargetLines == { calc.lineNumbers[k] : k \in 1..Len(calc.lineNumbers) }

WithinRadius ==
  { i \in 1..Len(calc.content) :
      \E n \in TargetLines :
        i - n <= calc.contextLines /\ n - i <= calc.contextLines }

NumberedRows == SelectSeq(calc.result, LAMBDA r : r # GapMarker)

C35_SurroundingLinesRendered ==
  SurroundingDone =>
    LET rows == calc.result
        numbered == NumberedRows
    IN /\ { numbered[k].lineNum : k \in 1..Len(numbered) } = WithinRadius
       /\ \A k \in 1..(Len(numbered) - 1) :
            numbered[k].lineNum < numbered[k + 1].lineNum
       /\ \A k \in 1..Len(numbered) :
            /\ numbered[k].lineContent = calc.content[numbered[k].lineNum]
            /\ numbered[k].changed <=> numbered[k].lineNum \in TargetLines
       /\ rows # << >> => rows[1] # GapMarker /\ rows[Len(rows)] # GapMarker
       /\ \A k \in 1..(Len(rows) - 1) :
            /\ (rows[k] # GapMarker /\ rows[k + 1] # GapMarker)
                 => rows[k + 1].lineNum = rows[k].lineNum + 1
            /\ rows[k] = GapMarker
                 => /\ k > 1
                    /\ rows[k + 1] # GapMarker
                    /\ rows[k - 1] # GapMarker
                    /\ rows[k + 1].lineNum > rows[k - 1].lineNum + 1

C35_Witness ==
  /\ SurroundingDone
  /\ Len(calc.lineNumbers) = 2
  /\ \E k \in 2..(Len(calc.result) - 1) : calc.result[k] = GapMarker
  /\ Len(NumberedRows) > Len(calc.lineNumbers)
  /\ NumberedRows[1].lineNum = 1

\* C36, as claimed: once the review comment carries the review body or the
\* error body of a run, the run issues no LLM call and posts no inline
\* comment.
TerminalWritten == pc = "done" /\ (Carries("review") \/ Carries("error"))

NoFurtherCalls == llmCalls' = llmCalls /\ postCalls' = postCalls

C36_TerminalUpdateIsLast == [][TerminalWritten => NoFurtherCalls]_vars

\* the same statement for the runs in which no file-review task throws
C36_LastWhenNoTaskThrows ==
  [][(TerminalWritten /\ \A i \in 1..Len(task) : task[i].pc # "thrown")
       => NoFurtherCalls]_vars

\* C37, as claimed: a finding that passes the comment filter is skipped as
\* a duplicate only if a createReviewComment call with the same normalized
\* text has succeeded; stated for the runs whose tasks have all ended.
TasksEnded == task # << >> /\ \A i \in 1..Len(task) : task[i].pc = "done"

PostedOk(key) ==
  \E k \in 1..Len(postCalls) :
    postCalls[k].key = key /\ postCalls[k].state = "ok"

C37_SuppressedOnlyIfPosted ==
  TasksEnded => \A key \in suppressed : PostedOk(key)

\* the same statement for the runs in which no createReviewComment call
\* was rejected
C37_HoldsWhenNoPostFails ==
  (TasksEnded /\ failedPosts = {}) => \A key \in suppressed : PostedOk(key)

\* C38, as claimed: every createReviewComment call of a run is anchored
\* at, and lists only, lines among the sampled changed lines of its file,
\* whatever the merge call returns.
SampledLines(i) ==
  { fileInfos[i].changedLines[k] :
      k \in 1..Min(LINE_SAMPLE, Len(fileInfos[i].changedLines)) }

PostWithinSample(c) ==
  /\ c.line \in SampledLines(c.file)
  /\ \A k \in 1..Len(c.lines) : c.lines[k] \in SampledLines(c.file)

C38_PostsOnSampledLines ==
  \A k \in 1..Len(postCalls) : PostWithinSample(postCalls[k])

\* the same statement for the files with a single changed line, whose
\* finding does not go through the merge call
C38_HoldsWithoutMerge ==
  \A k \in 1..Len(postCalls) :
    Len(fileInfos[postCalls[k].file].changedLines) = 1
      => PostWithinSample(postCalls[k])

\* C39, as claimed: in a well-formed hunk '@@ -a,b +c,d @@', with or
\* without '\ No newline at end of file' lines, every head number that
\* getChangedLineNumbers records lies in [c, c+d-1] and every base number
\* in [a, a+b-1]; b and d are the lines of the hunk that belong to the
\* base and to the head.
HunkLines(h, kinds) ==
  { j \in (h + 1)..Len(calc.lines) :
      /\ calc.lines[j].kind \in kinds
      /\ \A g \in LinesOfKind("hunk") : g <= h \/ g > j }

JustScanned == calc.lines[calc.i - 1]

RecordedHeadInHunk ==
  (FirstChar(JustScanned) = "+" /\ ~StartsWithTriple(JustScanned, "+")) =>
    LET h == HunkOf(calc.i - 1)
        n == calc.headLines[Len(calc.headLines)]
    IN /\ n >= calc.lines[h].c
       /\ n <= calc.lines[h].c
                 + Cardinality(HunkLines(h, {"context", "added"})) - 1

RecordedBaseInHunk ==
  (FirstChar(JustScanned) = "-" /\ ~StartsWithTriple(JustScanned, "-")) =>
    LET h == HunkOf(calc.i - 1)
        n == calc.baseLines[Len(calc.baseLines)]
    IN /\ n >= calc.lines[h].a
       /\ n <= calc.lines[h].a
                 + Cardinality(HunkLines(h, {"context", "removed"})) - 1

C39_NumbersWithinHunk ==
  (calc.fn = "getChangedLineNumbers" /\ calc.i > 1) =>
    RecordedHeadInHunk /\ RecordedBaseInHunk

\* the same statement on the patches without the marker line and without
\* lines of text that start with "++" or "--"
C39_HoldsOnPlainHunks ==
  (\A j \in 1..Len(calc.lines) :
     calc.lines[j].kind # "nonewline" /\ calc.lines[j].lead = "")
  => C39_NumbersWithinHunk

\* C40, as claimed: the instructions getRepoInstructions returns are the
\* text of an existing instructions file or empty: a fetch of an
\* instructions file that fails, for whatever reason, contributes no text.
InstructionFetches ==
  { k \in 1..Len(calc.answers) : calc.fetches[k].path = "instructions" }

C40_InstructionsAreFileText ==
  (calc.fn = "processFileDiff" /\ calc.fileInfo.instructions # << >>) =>
    \E k \in InstructionFetches :
      /\ calc.answers[k].kind = "file"
      /\ calc.fileInfo.instructions = calc.answers[k].text

\* the same statement for the runs in which no fetch of an instructions
\* file fails with another error than not-found
C40_HoldsWhenFetchesAnswer ==
  (\A k \in InstructionFetches : calc.answers[k].kind # "error")
  => C40_InstructionsAreFileText

====
